---- MODULE Spec2Model ----
(***************************************************************************)
(* Protocol engine of go-mcp (package shared): the outbound request        *)
(* multiplexer of Protocol.Request with its response / progress / timeout  *)
(* registries, the cancel flow, connection close, and the dispatch of      *)
(* inbound requests (Protocol.onRequest).                                  *)
(*                                                                         *)
(* Every handler of the engine is one action.  Protocol.Request is split   *)
(* where the code itself can be interleaved: the id counter is read and    *)
(* written under a read lock, and the caller blocks on returnChan until a  *)
(* goroutine hands it a value.                                             *)
(***************************************************************************)
EXTENDS Bags, FiniteSets, Integers, Sequences, TLC

(***************************************************************************)
(* Bounds of the model.                                                    *)
(***************************************************************************)
NumCallers == 2       \* concurrent calls of Protocol.Request
NumInbound == 2       \* inbound requests dispatched by onRequest
MaxProgress == 1      \* progress notifications processed per outbound request
MaxSendFailures == 1  \* transport.Send calls that return an error
MaxConnects == 1      \* calls of Protocol.Connect
TimeoutT == 1         \* RequestOptions.Timeout, in clock ticks
MaxTotalT == 2        \* RequestOptions.MaxTotalTimeout, in clock ticks
DurationBits == 4     \* width of time.Duration, scaled down from 64 bits
MaxCancels == 2       \* notifications/cancelled processed per inbound request id
MaxStream == 4        \* bytes the peer writes to stdin
ReadSize == 3         \* _MAX_STDIO_BUFFER_READ and the size of a bufio.Reader, scaled down
NumSenders == 3       \* concurrent calls of StdioServerTransport.Send
MaxHttpRequests == 2  \* HTTP requests handled by HandleRequest
MaxBatch == 2         \* most messages in one POST body
MaxSends == 2         \* calls of StreamableHTTPServerTransport.Send
NumStored == 4        \* events an event store holds from earlier connections
MaxMcpOps == 5        \* calls made on a McpServer and the handles it returned
MaxNotifications == 2 \* calls of Protocol.Notification
MaxServerCalls == 2   \* logged calls of Server.SetRequestHandler and Server.onInitialize

AgeCap == MaxTotalT + 1  \* elapsed time is tracked up to this many ticks

Slots == 1..NumCallers
InboundIDs == 1..NumInbound
Senders == 1..NumSenders
\* size of the buffer of a bufio.Writer, scaled down: as the 4096 bytes of
\* the code do, it holds the lines of all the senders
WriterSize == ReadSize * NumSenders
\* the options' EventStore when the application supplies none
NilStore == [nil |-> TRUE, events |-> <<>>]

(***************************************************************************)
(* Error codes, src/mcp/types/error.go.                                    *)
(***************************************************************************)
ERROR_CODE_INTERNAL_ERROR == -32603
ERROR_CODE_METHOD_NOT_FOUND == -32601
ERROR_CODE_INVALID_PARAMS == -32602
ERROR_CODE_CONNECTION_CLOSED == -32000
ERROR_CODE_REQUEST_TIMEOUT == -32001

\* an error value: the code and the message of types.Error
Err(code, msg) == [code |-> code, msg |-> msg]
NilErr == Err(0, "nil")
NewMcpError(code, msg) == Err(code, msg)

ErrNotConnected == Err(0, "transport not connected")
ErrCanceledBeforeSend == Err(0, "the request was canceled by an external close function")
ErrContextCanceled == Err(0, "context was canceled from outside")
ErrSend == Err(0, "transport.Send error")
ErrPeer == Err(ERROR_CODE_INVALID_PARAMS, "peer error")
ErrRequestTimeout == NewMcpError(ERROR_CODE_REQUEST_TIMEOUT, "request timed out")
ErrMaxTotalTimeout == NewMcpError(ERROR_CODE_REQUEST_TIMEOUT, "Maximum total timeout exceeded")
ErrConnectionClosed == NewMcpError(ERROR_CODE_CONNECTION_CLOSED, "Connection closed")
\* the error AssertCapabilityForMethod returns for a method the peer lacks
ErrCapabilityMissing == Err(0, "peer does not support the method")

(***************************************************************************)
(* time.Duration arithmetic.  A Duration is a signed integer of            *)
(* DurationBits bits; Time.Sub saturates, multiplication wraps.  The wall   *)
(* clock of a running process is further from the zero time.Time than the  *)
(* largest Duration (292 years against more than 2000).                    *)
(***************************************************************************)
Pow2(n) == 2 ^ n
MaxDuration == Pow2(DurationBits - 1) - 1
MinDuration == 0 - Pow2(DurationBits - 1)
ZeroTime == 0
ProcessStart == 2 * Pow2(DurationBits)

TimeSub(t, u) ==
    IF t - u > MaxDuration THEN MaxDuration
    ELSE IF t - u < MinDuration THEN MinDuration
    ELSE t - u
DurationMul(d, k) == ((d * k - MinDuration) % Pow2(DurationBits)) + MinDuration
TimeUntil(t, now) == TimeSub(t, now)

(***************************************************************************)
(* RequestOptions of one call: the kind of Context, whether Onprogress is   *)
(* set, ResetTimeoutOnProgress and MaxTotalTimeout.                         *)
(***************************************************************************)
CtxKinds == {"none", "cancel", "deadline"}
Options(c, canceled, onprogress, reset, maxTotal) ==
    [ctx |-> c, canceled |-> canceled, onprogress |-> onprogress,
     reset |-> reset, maxTotal |-> maxTotal]
RequestOptionsSet ==
    { Options("none", FALSE, FALSE, FALSE, 0),
      Options("none", FALSE, TRUE, FALSE, 0),
      Options("none", FALSE, TRUE, TRUE, MaxTotalT),
      Options("cancel", FALSE, FALSE, FALSE, 0),
      Options("cancel", TRUE, FALSE, FALSE, 0),
      Options("deadline", FALSE, TRUE, TRUE, 0) }
\* the options of the calls of caller s: any for the first caller, the
\* default ones or a cancellable context for the others
OptionsOf(s) ==
    IF s = 1 THEN RequestOptionsSet
    ELSE {Options("none", FALSE, FALSE, FALSE, 0), Options("cancel", FALSE, FALSE, FALSE, 0)}
NoOptions == [ctx |-> "none", canceled |-> FALSE, onprogress |-> FALSE,
              reset |-> FALSE, maxTotal |-> 0]

VARIABLES
    transport,            \* Protocol.transport: "nil" or "attached"
    connects,             \* number of Connect calls so far
    requestMessageID,     \* muxRequestMessageID.i
    responseHandlers,     \* message id -> slot whose closure is registered
    progressHandlers,     \* message id -> slot whose Onprogress is registered
    timeoutInfo,          \* message id -> slot whose timeoutConfig is stored
    timer,                \* per slot: the goroutine of timeoutConfig.Start
    requestHandlerCancel, \* inbound request ids with a cancel function
    pc,                   \* per slot: position of the Request call
    opts,                 \* per slot: the RequestOptions of the call
    loaded,               \* per slot: value of i read by Increase
    messageID,            \* per slot: id allocated to the call (0: none)
    sendFailed,           \* per slot: transport.Send of the envelope failed
    ctx,                  \* per slot: state of RequestOptions.Context
    watcher,              \* per slot: goroutine waiting on Context.Done
    returnChan,           \* per slot: bag of values of goroutines blocked on the send
    received,             \* per slot: the value the deferred receive took
    ret,                  \* per slot: (gResp, gErr) returned by Request
    age,                  \* per slot: ticks since the envelope was sent
    progressCalls,        \* per slot: invocations of the Onprogress callback
    lateProgress,         \* per slot: a progress was processed at age >= MaxTotalTimeout
    answered,             \* request envelopes the peer has replied to
    progressSent,         \* per slot: progress notifications the peer sent for its envelope
    closedSnapshot,       \* slots whose handler onClose invoked
    wire,                 \* bag of envelopes handed to transport.Send
    sendFailures,         \* number of failed transport.Send calls
    errors,               \* what was reported through onError
    crashed,              \* a goroutine panicked (nil transport)
    inPc,                 \* per inbound id: position of onRequest
    inCtx,                \* per inbound id: the handler context is cancelled
    inResult,             \* per inbound id: what the handler returned
    enforceStrict,        \* ProtocolOptions.EnforceStrictCapabilities is set and true
    capErr,               \* per slot: AssertCapabilityForMethod returns an error for the request
    progressDue,          \* per slot: progress received for its envelope while it was in flight
    cancelNotes,          \* per inbound id: notifications/cancelled processed for it
    notified,             \* the error of each Notification call, in order
    stdin,                \* stdio: bytes the peer wrote that Start has not read yet
    stream,               \* stdio: every byte the peer wrote, in order
    buf,                  \* stdio: the read buffer of the reader goroutine of Start
    chunks,               \* stdio: bag of the lengths n of the started onData(buf[:n])
    readBuffer,           \* stdio: contents of ReadBuffer.buffer
    delivered,            \* stdio: the messages handed to onMessage, in order
    sendPc,               \* stdio: per sender, position of its Send call
    sendN,                \* stdio: per sender, the b.n its Write read
    preceded,             \* stdio: per sender, the Send calls that had returned when it began
    bw,                   \* stdio: buffer of the bufio.Writer on stdout, by offset
    bwN,                  \* stdio: b.n of the bufio.Writer
    stdout,               \* stdio: the lines written to the process' stdout
    httpMode,             \* http: "unbuilt", or whether a sessionIDGenerator was given
    initialized,          \* http: StreamableHTTPServerTransport.initialized
    SessionID,            \* http: StreamableHTTPServerTransport.SessionID
    streamMapping,        \* http: "nil", or the set of stream ids mapped to a response
    httpLog,              \* http: the requests handled so far, with their responses
    enableJSONResponse,   \* http: StreamableHTTPServerTransport.enableJSONResponse
    eventStore,           \* http: the EventStore of the options (nil or not) and its events in stored order
    requestToStreamMapping, \* http: "nil", or request id -> stream id
    requestResponseMap,   \* http: "nil", or request id -> response kept for the JSON body
    frames,               \* http: what was written to response writers, in write order
    sendLog,              \* http: the Send calls so far, with their results
    serverTransport,      \* mcp: the McpServer's Protocol.transport, "nil" or "attached"
    serverCapabilities,   \* mcp: the non-nil fields of Server.capabilities
    handlersInitialized,  \* mcp: toolHandlersInitialized and promptHandlersInitialized
    registeredTools,      \* mcp: McpServer.registeredTools, key -> RegisteredTool
    registeredPrompts,    \* mcp: McpServer.registeredPrompts, key -> RegisteredPrompt
    toolResult,           \* mcp: the variable result of RegisterTool's closures, by opts.Name
    promptResult,         \* mcp: the variable result of RegisterPrompt's closures, by opts.Name
    lastOp,               \* mcp: the last call, its inputs and what it sent or returned
    mcpOps,               \* mcp: number of calls so far
    requestHandlers,      \* server: the methods with an entry in Protocol.requestHandlers
    serverLog,            \* server: the SetRequestHandler and onInitialize calls, with what they did
    codec,                \* types: a params object, its encoding and what the encoding decodes to
    wrapperPc             \* mcp: where the callers of McpServer.Connect and Close are

vars == <<transport, connects, requestMessageID, responseHandlers,
          progressHandlers, timeoutInfo, timer, requestHandlerCancel, pc,
          opts, loaded, messageID, sendFailed, ctx, watcher, returnChan,
          received, ret, age, progressCalls, lateProgress, answered,
          progressSent, closedSnapshot, wire, sendFailures, errors, crashed, inPc, inCtx,
          inResult, enforceStrict, capErr, progressDue, cancelNotes, notified, stdin,
          stream, buf, chunks, readBuffer, delivered, sendPc, sendN, preceded,
          bw, bwN, stdout, httpMode, initialized, SessionID, streamMapping,
          httpLog,
          enableJSONResponse, eventStore, requestToStreamMapping,
          requestResponseMap, frames, sendLog, serverTransport,
          serverCapabilities, handlersInitialized, registeredTools,
          registeredPrompts, toolResult, promptResult, lastOp, mcpOps,
          requestHandlers, serverLog, codec, wrapperPc>>

engineVars == <<transport, connects, requestMessageID, responseHandlers,
                progressHandlers, timeoutInfo, timer>>
callerVars == <<pc, opts, loaded, messageID, sendFailed, ctx, watcher,
                returnChan, received, ret, age, progressCalls, lateProgress>>
inboundVars == <<requestHandlerCancel, inPc, inCtx, inResult>>
peerVars == <<answered, progressSent, closedSnapshot>>
optionVars == <<enforceStrict, capErr>>
historyVars == <<progressDue, cancelNotes, notified>>
stdioInVars == <<stdin, stream, buf, chunks, readBuffer, delivered>>
stdioOutVars == <<sendPc, sendN, preceded, bw, bwN, stdout>>
httpOutVars == <<enableJSONResponse, eventStore, requestToStreamMapping,
                 requestResponseMap, frames, sendLog>>
httpVars == <<httpMode, initialized, SessionID, streamMapping, httpLog, httpOutVars>>
mcpVars == <<serverTransport, serverCapabilities, handlersInitialized,
             registeredTools, registeredPrompts, toolResult, promptResult,
             lastOp, mcpOps>>
serverVars == <<requestHandlers, serverLog, codec, wrapperPc>>
ioVars == <<stdioInVars, stdioOutVars, httpVars, mcpVars, serverVars>>
protocolVars == <<engineVars, callerVars, inboundVars, peerVars, optionVars,
                  historyVars, wire, sendFailures, errors, crashed>>

(***************************************************************************)
(* Helpers on maps and envelopes.                                          *)
(***************************************************************************)
EmptyMap == [k \in {} |-> 0]
MapSet(m, k, v) == [x \in DOMAIN m \cup {k} |-> IF x = k THEN v ELSE m[x]]
MapDelete(m, k) == [x \in DOMAIN m \ {k} |-> m[x]]
Range(m) == {m[k] : k \in DOMAIN m}

Envelope(kind, id, code, of) == [kind |-> kind, id |-> id, code |-> code, of |-> of]
RequestEnvelope(s, id) == Envelope("request", id, 0, s)
\* of: the slot whose cancelFlow sent the notification
CancelledNotification(s, id, reason) == Envelope("notifications/cancelled", id, reason.code, s)
JSONRPCResponse(id) == Envelope("response", id, 0, 0)
JSONRPCError(id, code) == Envelope("error", id, code, 0)

RECURSIVE SumCopies(_, _)
SumCopies(S, b) ==
    IF S = {} THEN 0
    ELSE LET e == CHOOSE x \in S : TRUE
         IN CopiesIn(e, b) + SumCopies(S \ {e}, b)
\* number of envelopes of a kind and id handed to the transport
CountSent(kind, id) ==
    SumCopies({e \in BagToSet(wire) : e.kind = kind /\ e.id = id}, wire)

\* a value travelling on returnChan: requestReturnChan{r, e}; r is 0 for nil,
\* else the slot whose request envelope the result answers
ReturnValue(r, e) == [r |-> r, e |-> e]
NoValue == ReturnValue(0, NilErr)
ReturnValues ==
    {ReturnValue(s, NilErr) : s \in 1..NumCallers}
      \cup {ReturnValue(0, e) : e \in {ErrSend, ErrPeer, ErrContextCanceled,
                ErrRequestTimeout, ErrMaxTotalTimeout, ErrConnectionClosed}}

\* a timeoutConfig and the goroutine of its Start: StartTime, whether the
\* goroutine is waiting, and the ticks left until time.After fires
NoTimer == [running |-> FALSE, remaining |-> 0, startTime |-> ZeroTime]

SendResults == IF sendFailures < MaxSendFailures THEN {TRUE, FALSE} ELSE {TRUE}

\* the request envelope of slot s reached the transport
EnvelopeSent(s) == messageID[s] # 0 /\ RequestEnvelope(s, messageID[s]) \in BagToSet(wire)

\* a request is in flight: sent, and not yet answered, cancelled, timed out
\* or failed by a close
InFlight(s) ==
    /\ pc[s] = "waiting"
    /\ EnvelopeSent(s)
    /\ returnChan[s] = EmptyBag
    /\ RequestEnvelope(s, messageID[s]) \notin answered
    /\ s \notin closedSnapshot

NewProtocol(opts_EnforceStrictCapabilities) ==
    /\ enforceStrict = opts_EnforceStrictCapabilities
    /\ capErr = [s \in Slots |-> FALSE]
    /\ progressDue = [s \in Slots |-> 0]
    /\ cancelNotes = [r \in InboundIDs |-> 0]
    /\ notified = <<>>
    /\ transport = "nil"
    /\ connects = 0
    /\ requestMessageID = 0
    /\ responseHandlers = EmptyMap
    /\ progressHandlers = EmptyMap
    /\ timeoutInfo = EmptyMap
    /\ timer = [s \in Slots |-> NoTimer]
    /\ requestHandlerCancel = {}
    /\ pc = [s \in Slots |-> "idle"]
    /\ opts = [s \in Slots |-> NoOptions]
    /\ loaded = [s \in Slots |-> 0]
    /\ messageID = [s \in Slots |-> 0]
    /\ sendFailed = [s \in Slots |-> FALSE]
    /\ ctx = [s \in Slots |-> "none"]
    /\ watcher = [s \in Slots |-> "none"]
    /\ returnChan = [s \in Slots |-> EmptyBag]
    /\ received = [s \in Slots |-> NoValue]
    /\ ret = [s \in Slots |-> NoValue]
    /\ age = [s \in Slots |-> 0]
    /\ progressCalls = [s \in Slots |-> 0]
    /\ lateProgress = [s \in Slots |-> FALSE]
    /\ answered = {}
    /\ progressSent = [s \in Slots |-> 0]
    /\ closedSnapshot = {}
    /\ wire = EmptyBag
    /\ sendFailures = 0
    /\ errors = {}
    /\ crashed = FALSE
    /\ inPc = [r \in InboundIDs |-> "none"]
    /\ inCtx = [r \in InboundIDs |-> FALSE]
    /\ inResult = [r \in InboundIDs |-> "none"]

\* NewStdioServerTransport: nothing read, nothing written
NewStdioServerTransport ==
    /\ stdin = <<>>
    /\ stream = <<>>
    /\ buf = [i \in 1..ReadSize |-> "0"]
    /\ chunks = EmptyBag
    /\ readBuffer = <<>>
    /\ delivered = <<>>
    /\ sendPc = [k \in Senders |-> "idle"]
    /\ sendN = [k \in Senders |-> 0]
    /\ preceded = [k \in Senders |-> {}]
    /\ bw = [i \in 1..WriterSize |-> "0"]
    /\ bwN = 0
    /\ stdout = <<>>

(***************************************************************************)
(* McpServer: the registries of tools and prompts.  registeredTools and    *)
(* registeredPrompts are maps of struct values, so Set stores a copy of    *)
(* its argument; the closures of a registration share the variable result  *)
(* of that call.  An item is modelled by its Enabled flag and its Title,   *)
(* which stands for every field Update replaces when it is not empty.      *)
(***************************************************************************)
ToolNames == {"a", "b"}
PromptNames == {"p"}
\* the keys of the maps: the names, and the empty string
ToolKeys == ToolNames \cup {""}
PromptKeys == PromptNames \cup {""}
Titles == {"t1", "t2"}
\* no entry under a key, and no registration made under a name
Absent == [present |-> FALSE, Enabled |-> FALSE, Title |-> ""]
Registered(title, enabled) == [present |-> TRUE, Enabled |-> enabled, Title |-> title]
\* an update that supplies nothing, the zero value of RegisteredToolUpdateOpts
NoUpdates == [Name |-> "", Title |-> "", Enabled |-> FALSE]
Called(op, kind, name, updates, sent, code, listed) ==
    [op |-> op, kind |-> kind, name |-> name, updates |-> updates, sent |-> sent,
     code |-> code, listed |-> listed]

\* NewMcpServer: empty registries on a Server that is not connected
NewMcpServer ==
    /\ serverTransport = "nil"
    /\ serverCapabilities = {}
    /\ handlersInitialized = {}
    /\ registeredTools = [k \in ToolKeys |-> Absent]
    /\ registeredPrompts = [k \in PromptKeys |-> Absent]
    /\ toolResult = [n \in ToolNames |-> Absent]
    /\ promptResult = [n \in PromptNames |-> Absent]
    /\ lastOp = Called("none", "", "", NoUpdates, 0, 0, {})
    /\ mcpOps = 0

\* a JSON object: its keys and the value of each
NoProperties == [key \in {} |-> ""]
\* the zero value of a params struct: Metadata nil, AdditionalProperties nil
\* (a nil map and an empty one have the same entries)
ZeroParams == [Metadata |-> "nil", AdditionalProperties |-> NoProperties]
\* no params object has been built yet
NoParams ==
    codec = [phase |-> "none", kind |-> "", params |-> ZeroParams,
             wire |-> NoProperties, err |-> FALSE, decoded |-> ZeroParams]

\* the methods of McpServer that go through wrapperOnErrorServer
WrapperCalls == {"Connect", "Close"}

\* NewServer: the Server of a McpServer, which installs the handler of
\* initialize
NewServer ==
    /\ requestHandlers = {"initialize"}
    /\ serverLog = <<>>
    /\ wrapperPc = [call \in WrapperCalls |-> "idle"]

\* no StreamableHTTPServerTransport has been constructed yet
NoHTTPTransport ==
    /\ httpMode = "unbuilt"
    /\ initialized = FALSE
    /\ SessionID = ""
    /\ streamMapping = "nil"
    /\ httpLog = <<>>
    /\ enableJSONResponse = FALSE
    /\ eventStore = NilStore
    /\ requestToStreamMapping = "nil"
    /\ requestResponseMap = "nil"
    /\ frames = <<>>
    /\ sendLog = <<>>

\* a Protocol without EnforceStrictCapabilities, the default
Init == NewProtocol(FALSE) /\ NewStdioServerTransport /\ NoHTTPTransport /\ NewMcpServer /\ NewServer /\ NoParams
\* a Protocol constructed with EnforceStrictCapabilities set to true
StrictInit == NewProtocol(TRUE) /\ NewStdioServerTransport /\ NoHTTPTransport /\ NewMcpServer /\ NewServer /\ NoParams

(***************************************************************************)
(* Protocol.Connect: attaches the transport and starts it.                 *)
(***************************************************************************)
Connect ==
    /\ ~crashed
    /\ UNCHANGED <<optionVars, historyVars, ioVars>>
    /\ transport = "nil"
    /\ connects < MaxConnects
    /\ transport' = "attached"
    /\ connects' = connects + 1
    /\ UNCHANGED <<requestMessageID, responseHandlers, progressHandlers,
                   timeoutInfo, timer, callerVars, inboundVars, peerVars,
                   wire, sendFailures, errors, crashed>>

(***************************************************************************)
(* timeoutConfig.Clear / Start and Protocol.cleanupTimeout.                *)
(***************************************************************************)
TimerClear(tm, s) == [tm EXCEPT ![s].running = FALSE]
TimerStart(tm, s) == [tm EXCEPT ![s].running = TRUE, ![s].remaining = TimeoutT]
CleanupTimer(tm, id) ==
    IF id \in DOMAIN timeoutInfo THEN TimerClear(tm, timeoutInfo[id]) ELSE tm

\* RequestOptions.Canceled: Context.Err() == context.Canceled
Canceled(s) == ctx[s] = "canceled"

(***************************************************************************)
(* Protocol.Request, first part: the not-connected and cancelled checks,   *)
(* then muxRequestMessageID.Increase reads the counter.  Increase holds    *)
(* the read lock only, so other calls may read the same value.  The calls  *)
(* are numbered in the order in which they start.  With                    *)
(* EnforceStrictCapabilities the owner's AssertCapabilityForMethod is      *)
(* called on a connected Protocol and what it returns is dropped.          *)
(***************************************************************************)
\* what AssertCapabilityForMethod can return for a request: an error or nil;
\* it is not called without EnforceStrictCapabilities
AssertResults == IF enforceStrict THEN BOOLEAN ELSE {FALSE}

\* Request without the test of p.transport
RequestLoadUnchecked(s, o) ==
    /\ ~crashed
    /\ UNCHANGED <<enforceStrict, historyVars, ioVars>>
    /\ pc[s] = "idle"
    /\ \A t \in Slots : t < s => pc[t] # "idle"
    /\ opts' = [opts EXCEPT ![s] = o]
    /\ ctx' = [ctx EXCEPT ![s] = IF o.ctx = "none" THEN "none"
                                 ELSE IF o.canceled THEN "canceled" ELSE "live"]
    /\ IF transport = "nil"
       THEN capErr' = capErr
       ELSE \E c \in AssertResults : capErr' = [capErr EXCEPT ![s] = c]
    /\ IF o.ctx # "none" /\ o.canceled
       THEN /\ pc' = [pc EXCEPT ![s] = "returned"]
            /\ ret' = [ret EXCEPT ![s] = ReturnValue(0, ErrCanceledBeforeSend)]
            /\ UNCHANGED loaded
       ELSE /\ pc' = [pc EXCEPT ![s] = "alloc"]
            /\ loaded' = [loaded EXCEPT ![s] = requestMessageID]
            /\ UNCHANGED ret
    /\ UNCHANGED <<engineVars, messageID, sendFailed, watcher, returnChan,
                   received, age, progressCalls, lateProgress, inboundVars,
                   peerVars, wire, sendFailures, errors, crashed>>

RequestLoad(s, o) ==
    /\ ~crashed
    /\ UNCHANGED <<enforceStrict, historyVars, ioVars>>
    /\ pc[s] = "idle"
    /\ \A t \in Slots : t < s => pc[t] # "idle"
    /\ opts' = [opts EXCEPT ![s] = o]
    /\ ctx' = [ctx EXCEPT ![s] = IF o.ctx = "none" THEN "none"
                                 ELSE IF o.canceled THEN "canceled" ELSE "live"]
    /\ IF transport = "nil"
       THEN capErr' = capErr
       ELSE \E c \in AssertResults : capErr' = [capErr EXCEPT ![s] = c]
    /\ IF transport = "nil"
       THEN /\ pc' = [pc EXCEPT ![s] = "returned"]
            /\ ret' = [ret EXCEPT ![s] = ReturnValue(0, ErrNotConnected)]
            /\ UNCHANGED loaded
       ELSE IF o.ctx # "none" /\ o.canceled
       THEN /\ pc' = [pc EXCEPT ![s] = "returned"]
            /\ ret' = [ret EXCEPT ![s] = ReturnValue(0, ErrCanceledBeforeSend)]
            /\ UNCHANGED loaded
       ELSE /\ pc' = [pc EXCEPT ![s] = "alloc"]
            /\ loaded' = [loaded EXCEPT ![s] = requestMessageID]
            /\ UNCHANGED ret
    /\ UNCHANGED <<engineVars, messageID, sendFailed, watcher, returnChan,
                   received, age, progressCalls, lateProgress, inboundVars,
                   peerVars, wire, sendFailures, errors, crashed>>

(***************************************************************************)
(* Protocol.Request, second part: Increase stores the counter, the         *)
(* progress handler, the context watcher, the response handler and the     *)
(* timeoutConfig are registered, and the envelope is sent.  The            *)
(* timeoutConfig is stored by setupTimeout; its Start is not called here.  *)
(***************************************************************************)
RequestSend(s, ok) ==
    /\ ~crashed
    /\ UNCHANGED <<optionVars, historyVars, ioVars>>
    /\ pc[s] = "alloc"
    /\ ok \in SendResults
    /\ LET id == loaded[s] + 1 IN
       /\ requestMessageID' = id
       /\ messageID' = [messageID EXCEPT ![s] = id]
       /\ progressHandlers' = IF opts[s].onprogress
                              THEN MapSet(progressHandlers, id, s)
                              ELSE progressHandlers
       /\ watcher' = [watcher EXCEPT ![s] =
                         IF opts[s].ctx = "deadline" THEN "watching" ELSE "none"]
       /\ responseHandlers' = MapSet(responseHandlers, id, s)
       /\ timer' = [timer EXCEPT ![s] = NoTimer]
       /\ age' = [age EXCEPT ![s] = 0]
       /\ IF transport = "nil"
          THEN /\ crashed' = TRUE
               /\ pc' = [pc EXCEPT ![s] = "panicked"]
               /\ timeoutInfo' = MapSet(timeoutInfo, id, s)
               /\ UNCHANGED <<wire, returnChan, sendFailed, sendFailures>>
          ELSE IF ok
          THEN /\ wire' = wire (+) SetToBag({RequestEnvelope(s, id)})
               /\ pc' = [pc EXCEPT ![s] = "waiting"]
               /\ timeoutInfo' = MapSet(timeoutInfo, id, s)
               /\ UNCHANGED <<returnChan, sendFailed, sendFailures, crashed>>
          ELSE /\ timeoutInfo' = MapDelete(timeoutInfo, id)
               /\ returnChan' = [returnChan EXCEPT ![s] =
                                    @ (+) SetToBag({ReturnValue(0, ErrSend)})]
               /\ sendFailed' = [sendFailed EXCEPT ![s] = TRUE]
               /\ sendFailures' = sendFailures + 1
               /\ pc' = [pc EXCEPT ![s] = "waiting"]
               /\ UNCHANGED <<wire, crashed>>
    /\ UNCHANGED <<transport, connects, opts, loaded, ctx, received, ret,
                   progressCalls, lateProgress, inboundVars, peerVars, errors>>

(***************************************************************************)
(* The deferred function of Protocol.Request: receives one value from      *)
(* returnChan and builds the named results (gResp, gErr).  gErr is nil     *)
(* when the deferred function runs.                                        *)
(***************************************************************************)
DeferredResult(gErr, resultReturn) ==
    ReturnValue(resultReturn.r, IF gErr # NilErr THEN resultReturn.e ELSE gErr)

RequestReturn(s, v) ==
    /\ ~crashed
    /\ UNCHANGED <<optionVars, historyVars, ioVars>>
    /\ pc[s] = "waiting"
    /\ v \in BagToSet(returnChan[s])
    /\ received' = [received EXCEPT ![s] = v]
    /\ ret' = [ret EXCEPT ![s] = DeferredResult(NilErr, v)]
    /\ returnChan' = [returnChan EXCEPT ![s] = @ (-) SetToBag({v})]
    /\ pc' = [pc EXCEPT ![s] = "returned"]
    /\ UNCHANGED <<engineVars, opts, loaded, messageID, sendFailed, ctx,
                   watcher, age, progressCalls, lateProgress, inboundVars,
                   peerVars, wire, sendFailures, errors, crashed>>

(***************************************************************************)
(* The response handler closure registered by Request for slot s, applied  *)
(* to a response: the new contents of returnChan and the error it returns. *)
(***************************************************************************)
ResponseHandlerPush(chan, s, value) ==
    IF Canceled(s) THEN chan
    ELSE [chan EXCEPT ![s] = @ (+) SetToBag({value})]

(***************************************************************************)
(* cancelFlow(reason) of the Request call of slot s, on the timer state    *)
(* tm: removes the handlers and the timeoutConfig of the message id, sends *)
(* notifications/cancelled, and starts a goroutine that hands the reason   *)
(* to returnChan.  The sync.Once is a local of each invocation.            *)
(***************************************************************************)
CancelFlow(s, reason, ok, tm) ==
    LET id == messageID[s] IN
    /\ ok \in SendResults
    /\ responseHandlers' = MapDelete(responseHandlers, id)
    /\ progressHandlers' = MapDelete(progressHandlers, id)
    /\ timer' = CleanupTimer(tm, id)
    /\ timeoutInfo' = MapDelete(timeoutInfo, id)
    /\ IF transport = "nil"
       THEN /\ crashed' = TRUE
            /\ UNCHANGED <<wire, returnChan, sendFailures, errors>>
       ELSE /\ IF ok
               THEN /\ wire' = wire (+) SetToBag({CancelledNotification(s, id, reason)})
                    /\ UNCHANGED <<sendFailures, errors>>
               ELSE /\ sendFailures' = sendFailures + 1
                    /\ errors' = errors \cup {"failed to send cancellation"}
                    /\ UNCHANGED wire
            /\ returnChan' = [returnChan EXCEPT ![s] =
                                 @ (+) SetToBag({ReturnValue(0, reason)})]
            /\ UNCHANGED crashed

(***************************************************************************)
(* The goroutine Request starts for a Context that has a deadline: waits   *)
(* for Context.Done and calls cancelFlow.                                  *)
(***************************************************************************)
ContextWatcher(s, ok) ==
    /\ ~crashed
    /\ UNCHANGED <<optionVars, historyVars, ioVars>>
    /\ watcher[s] = "watching"
    /\ ctx[s] \in {"canceled", "deadline_exceeded"}
    /\ watcher' = [watcher EXCEPT ![s] = "done"]
    /\ CancelFlow(s, ErrContextCanceled, ok, timer)
    /\ UNCHANGED <<transport, connects, requestMessageID, pc, opts, loaded,
                   messageID, sendFailed, ctx, received, ret, age,
                   progressCalls, lateProgress, inboundVars, peerVars>>

(***************************************************************************)
(* The goroutine of timeoutConfig.Start: time.After fired before the       *)
(* context of the timer was cancelled; OnTimeout calls cancelFlow.         *)
(***************************************************************************)
TimerFire(s, ok) ==
    /\ ~crashed
    /\ UNCHANGED <<optionVars, historyVars, ioVars>>
    /\ timer[s].running
    /\ timer[s].remaining = 0
    /\ CancelFlow(s, ErrRequestTimeout, ok, TimerClear(timer, s))
    /\ UNCHANGED <<transport, connects, requestMessageID, pc, opts, loaded,
                   messageID, sendFailed, ctx, watcher, received, ret, age,
                   progressCalls, lateProgress, inboundVars, peerVars>>

(***************************************************************************)
(* The caller cancels its Context, or the deadline of the Context passes,  *)
(* at any time after Request has passed its Canceled check.  (Request does *)
(* not look at the Context between that check and the Send, so a cancel in *)
(* between acts like one right after the Send.)                            *)
(***************************************************************************)
ContextCancel(s) ==
    /\ ~crashed
    /\ UNCHANGED <<optionVars, historyVars, ioVars>>
    /\ pc[s] \in {"waiting", "returned"}
    /\ ctx[s] = "live"
    /\ ctx' = [ctx EXCEPT ![s] = "canceled"]
    /\ UNCHANGED <<engineVars, pc, opts, loaded, messageID, sendFailed,
                   watcher, returnChan, received, ret, age, progressCalls,
                   lateProgress, inboundVars, peerVars, wire, sendFailures,
                   errors, crashed>>

ContextDeadline(s) ==
    /\ ~crashed
    /\ UNCHANGED <<optionVars, historyVars, ioVars>>
    /\ pc[s] \in {"waiting", "returned"}
    /\ opts[s].ctx = "deadline"
    /\ ctx[s] = "live"
    /\ ctx' = [ctx EXCEPT ![s] = "deadline_exceeded"]
    /\ UNCHANGED <<engineVars, pc, opts, loaded, messageID, sendFailed,
                   watcher, returnChan, received, ret, age, progressCalls,
                   lateProgress, inboundVars, peerVars, wire, sendFailures,
                   errors, crashed>>

(***************************************************************************)
(* One tick of the clock: requests in flight age, running timers count     *)
(* down.                                                                   *)
(***************************************************************************)
\* the elapsed time of a request is read only through MaxTotalTimeout
Ages(s) == pc[s] = "waiting" /\ opts[s].maxTotal > 0 /\ age[s] < AgeCap

Tick ==
    /\ ~crashed
    /\ UNCHANGED <<optionVars, historyVars, ioVars>>
    /\ \E s \in Slots :
          \/ Ages(s)
          \/ (timer[s].running /\ timer[s].remaining > 0)
    /\ age' = [s \in Slots |->
                  IF Ages(s) THEN age[s] + 1 ELSE age[s]]
    /\ timer' = [s \in Slots |->
                    IF timer[s].running /\ timer[s].remaining > 0
                    THEN [timer[s] EXCEPT !.remaining = @ - 1] ELSE timer[s]]
    /\ UNCHANGED <<transport, connects, requestMessageID, responseHandlers,
                   progressHandlers, timeoutInfo, pc, opts, loaded, messageID,
                   sendFailed, ctx, watcher, returnChan, received, ret,
                   progressCalls, lateProgress, inboundVars, peerVars, wire,
                   sendFailures, errors, crashed>>

(***************************************************************************)
(* Protocol.onResponse for the peer's reply to the request envelope e:     *)
(* looks the handler up by the id of the reply, removes the handlers and   *)
(* the timeoutConfig of that id and calls the handler.                     *)
(***************************************************************************)
OnResponse(e, kind) ==
    /\ ~crashed
    /\ UNCHANGED <<optionVars, historyVars, ioVars>>
    /\ transport = "attached"
    /\ e \in BagToSet(wire)
    /\ e.kind = "request"
    /\ e \notin answered
    /\ answered' = answered \cup {e}
    /\ IF e.id \notin DOMAIN responseHandlers
       THEN /\ errors' = errors \cup {"received a response for an unknown message ID"}
            /\ UNCHANGED <<responseHandlers, progressHandlers, timeoutInfo,
                           timer, returnChan>>
       ELSE LET h == responseHandlers[e.id] IN
            /\ responseHandlers' = MapDelete(responseHandlers, e.id)
            /\ progressHandlers' = MapDelete(progressHandlers, e.id)
            /\ timer' = CleanupTimer(timer, e.id)
            /\ timeoutInfo' = MapDelete(timeoutInfo, e.id)
            /\ returnChan' = ResponseHandlerPush(returnChan, h,
                                IF kind = "result" THEN ReturnValue(e.of, NilErr)
                                ELSE ReturnValue(0, ErrPeer))
            /\ errors' = IF kind = "error" /\ ~Canceled(h)
                         THEN errors \cup {"responseHandler error"} ELSE errors
    /\ UNCHANGED <<transport, connects, requestMessageID, pc, opts, loaded,
                   messageID, sendFailed, ctx, watcher, received, ret, age,
                   progressCalls, lateProgress, inboundVars, progressSent,
                   closedSnapshot, wire, sendFailures, crashed>>

(***************************************************************************)
(* Protocol.resetTimeout: the elapsed time it computes for the             *)
(* timeoutConfig of slot ts, and whether it reports the maximum total      *)
(* timeout.                                                                *)
(***************************************************************************)
TotalElapsed(ts) ==
    DurationMul(TimeUntil(timer[ts].startTime, ProcessStart + age[ts]), -1)
MaxTotalExceeded(ts) ==
    opts[ts].maxTotal > 0 /\ TotalElapsed(ts) >= opts[ts].maxTotal

(***************************************************************************)
(* Protocol.onProgress for a progress notification carrying the token of   *)
(* the request envelope e.  tokenType is the dynamic type of               *)
(* Params.ProgressToken: the int Request put into the envelope when the    *)
(* transport hands the notification over in memory, float64 when the       *)
(* notification was decoded from JSON (ProgressToken is an interface{}).   *)
(* The handler asserts ProgressToken.(int) without the ok form.  cbErr:    *)
(* the Onprogress callback returns an error.                               *)
(***************************************************************************)
TokenTypes == {"int", "float64"}
\* what onError has reported after the Onprogress callback has run
ProgressCallback(reported, cbErr) ==
    IF cbErr THEN reported \cup {"progressHandler error"} ELSE reported

OnProgress(e, tokenType, cbErr) ==
    /\ ~crashed
    /\ UNCHANGED <<optionVars, cancelNotes, notified, ioVars>>
    /\ transport = "attached"
    /\ e \in BagToSet(wire)
    /\ e.kind = "request"
    /\ opts[e.of].onprogress
    /\ progressSent[e.of] < MaxProgress
    /\ tokenType \in TokenTypes
    /\ progressSent' = [progressSent EXCEPT ![e.of] = @ + 1]
    /\ progressDue' = [progressDue EXCEPT ![e.of] = IF InFlight(e.of) THEN @ + 1 ELSE @]
    /\ crashed' = (tokenType # "int")
    /\ IF tokenType # "int"
       THEN UNCHANGED <<errors, timer, returnChan, progressCalls, lateProgress>>
       ELSE IF e.id \notin DOMAIN progressHandlers
       THEN /\ errors' = errors \cup {"received a progress notification for an unknown token"}
            /\ UNCHANGED <<timer, returnChan, progressCalls, lateProgress>>
       ELSE LET ph == progressHandlers[e.id]
                doReset == /\ e.id \in DOMAIN timeoutInfo
                           /\ e.id \in DOMAIN responseHandlers
                           /\ opts[timeoutInfo[e.id]].reset
                called == ProgressCallback(errors, cbErr)
            IN
            /\ IF doReset
               THEN LET ts == timeoutInfo[e.id] IN
                    /\ lateProgress' = [lateProgress EXCEPT ![ts] =
                           @ \/ (opts[ts].maxTotal > 0 /\ age[ts] >= opts[ts].maxTotal)]
                    /\ IF MaxTotalExceeded(ts)
                       THEN /\ returnChan' = ResponseHandlerPush(returnChan,
                                  responseHandlers[e.id],
                                  ReturnValue(0, ErrMaxTotalTimeout))
                            /\ UNCHANGED <<timer, progressCalls, errors>>
                       ELSE /\ timer' = TimerStart(TimerClear(timer, ts), ts)
                            /\ progressCalls' = [progressCalls EXCEPT ![ph] = @ + 1]
                            /\ errors' = called
                            /\ UNCHANGED returnChan
               ELSE /\ progressCalls' = [progressCalls EXCEPT ![ph] = @ + 1]
                    /\ errors' = called
                    /\ UNCHANGED <<timer, returnChan, lateProgress>>
    /\ UNCHANGED <<transport, connects, requestMessageID, responseHandlers,
                   progressHandlers, timeoutInfo, pc, opts, loaded, messageID,
                   sendFailed, ctx, watcher, received, ret, age, inboundVars,
                   answered, closedSnapshot, wire, sendFailures>>

(***************************************************************************)
(* Protocol.onClose: takes the response handlers, empties the response and *)
(* progress registries, detaches the transport and calls every handler it  *)
(* took with CONNECTION_CLOSED.  GetAll returns the map that Clear then    *)
(* replaces, so the handlers taken are those registered at the close.      *)
(***************************************************************************)
OnClose ==
    /\ ~crashed
    /\ UNCHANGED <<optionVars, historyVars, ioVars>>
    /\ transport = "attached"
    /\ LET taken == Range(responseHandlers) IN
       /\ returnChan' = [s \in Slots |->
                            IF s \in taken /\ ~Canceled(s)
                            THEN returnChan[s] (+) SetToBag({ReturnValue(0, ErrConnectionClosed)})
                            ELSE returnChan[s]]
       /\ closedSnapshot' = closedSnapshot \cup taken
    /\ responseHandlers' = EmptyMap
    /\ progressHandlers' = EmptyMap
    /\ transport' = "nil"
    /\ UNCHANGED <<connects, requestMessageID, timeoutInfo, timer, pc, opts,
                   loaded, messageID, sendFailed, ctx, watcher, received, ret,
                   age, progressCalls, lateProgress, inboundVars, answered,
                   progressSent, wire, sendFailures, errors, crashed>>

(***************************************************************************)
(* Protocol.onRequest up to the call of the handler, for the inbound       *)
(* request id r.  handler: a handler registered for the method, else the   *)
(* owner's FallbackRequestHandler, which may be nil (those of Server and   *)
(* Client never are).  With no handler METHOD_NOT_FOUND is sent and the    *)
(* function goes on (only a failed Send returns): it registers the cancel  *)
(* function, decodes _meta and calls the nil handler, which panics; the    *)
(* deferred Delete runs while the panic unwinds.  metaOk: the _meta of the *)
(* request decodes into a MetadataRequest; if not, INTERNAL_ERROR is sent  *)
(* and the function goes on as well.                                       *)
(***************************************************************************)
Handlers == {"registered", "fallback", "nil"}

OnRequest(r, handler, metaOk, okNF, ok) ==
    /\ ~crashed
    /\ UNCHANGED <<optionVars, historyVars, ioVars>>
    /\ transport = "attached"
    /\ inPc[r] = "none"
    /\ handler \in Handlers
    /\ okNF \in SendResults
    /\ ok \in SendResults
    /\ IF handler = "nil" /\ ~okNF
       THEN /\ sendFailures' = sendFailures + 1
            /\ errors' = errors \cup {"failed to send an error response"}
            /\ inPc' = [inPc EXCEPT ![r] = "done"]
            /\ inResult' = [inResult EXCEPT ![r] = "not found"]
            /\ UNCHANGED <<wire, requestHandlerCancel, crashed>>
       ELSE LET notFound == IF handler = "nil"
                            THEN SetToBag({JSONRPCError(r, ERROR_CODE_METHOD_NOT_FOUND)})
                            ELSE EmptyBag
            IN
            IF ~metaOk /\ ~ok
            THEN /\ wire' = wire (+) notFound
                 /\ sendFailures' = sendFailures + 1
                 /\ errors' = errors \cup {"failed to send an error response"}
                 /\ inPc' = [inPc EXCEPT ![r] = "done"]
                 /\ inResult' = [inResult EXCEPT ![r] =
                                    IF handler = "nil" THEN "not found" ELSE "not called"]
                 /\ UNCHANGED <<requestHandlerCancel, crashed>>
            ELSE /\ wire' = (wire (+) notFound)
                               (+) (IF metaOk THEN EmptyBag
                                    ELSE SetToBag({JSONRPCError(r, ERROR_CODE_INTERNAL_ERROR)}))
                 /\ UNCHANGED <<sendFailures, errors>>
                 /\ IF handler = "nil"
                    THEN /\ crashed' = TRUE
                         /\ inPc' = [inPc EXCEPT ![r] = "panicked"]
                         /\ inResult' = [inResult EXCEPT ![r] = "not found"]
                         /\ UNCHANGED requestHandlerCancel
                    ELSE /\ requestHandlerCancel' = requestHandlerCancel \cup {r}
                         /\ inPc' = [inPc EXCEPT ![r] = "running"]
                         /\ UNCHANGED <<inResult, crashed>>
    /\ UNCHANGED <<engineVars, callerVars, peerVars, inCtx>>

\* onRequest as it would be without the ctx.Err() test after the handler:
\* the reply is sent whether or not the handler context was cancelled
HandlerReturnIgnoringCancel(r, res, okErr, okRes) ==
    /\ ~crashed
    /\ UNCHANGED <<optionVars, historyVars, ioVars>>
    /\ inPc[r] = "running"
    /\ okErr \in SendResults
    /\ okRes \in SendResults
    /\ transport = "attached"
    /\ inPc' = [inPc EXCEPT ![r] = "returning"]
    /\ inResult' = [inResult EXCEPT ![r] = IF inCtx[r] THEN "cancelled" ELSE res]
    /\ wire' = wire (+) SetToBag({JSONRPCResponse(r)})
    /\ UNCHANGED <<engineVars, callerVars, peerVars, inCtx, crashed,
                   requestHandlerCancel, sendFailures, errors>>

(***************************************************************************)
(* Protocol.onRequest after the handler returned res ("ok": a result,      *)
(* "err": an error): no reply when the handler context is cancelled; an    *)
(* INTERNAL_ERROR reply when the handler returned an error; then the       *)
(* Response with the result.  Only a failed Send returns early.  The       *)
(* deferred requestHandlerCancel.Delete has not run yet.                   *)
(***************************************************************************)
HandlerReturn(r, res, okErr, okRes) ==
    /\ ~crashed
    /\ UNCHANGED <<optionVars, historyVars, ioVars>>
    /\ inPc[r] = "running"
    /\ okErr \in SendResults
    /\ okRes \in SendResults
    /\ IF inCtx[r]
       THEN /\ inPc' = [inPc EXCEPT ![r] = "returning"]
            /\ inResult' = [inResult EXCEPT ![r] = "cancelled"]
            /\ UNCHANGED <<wire, sendFailures, errors, crashed, requestHandlerCancel>>
       ELSE IF transport = "nil"
       THEN /\ crashed' = TRUE
            /\ inPc' = [inPc EXCEPT ![r] = "panicked"]
            /\ inResult' = [inResult EXCEPT ![r] = res]
            /\ requestHandlerCancel' = requestHandlerCancel \ {r}
            /\ UNCHANGED <<wire, sendFailures, errors>>
       ELSE /\ inPc' = [inPc EXCEPT ![r] = "returning"]
            /\ inResult' = [inResult EXCEPT ![r] = res]
            /\ UNCHANGED <<crashed, requestHandlerCancel>>
            /\ LET errSent == res = "err" /\ okErr
                   errFailed == res = "err" /\ ~okErr
                   resSent == ~errFailed /\ okRes
                   resFailed == ~errFailed /\ ~okRes
               IN
               /\ wire' = (wire (+) (IF errSent
                                     THEN SetToBag({JSONRPCError(r, ERROR_CODE_INTERNAL_ERROR)})
                                     ELSE EmptyBag))
                               (+) (IF resSent THEN SetToBag({JSONRPCResponse(r)})
                                    ELSE EmptyBag)
               /\ sendFailures' = IF errFailed \/ resFailed
                                  THEN sendFailures + 1 ELSE sendFailures
               /\ errors' = errors
                              \cup (IF errFailed THEN {"failed to send an error response"} ELSE {})
                              \cup (IF resFailed THEN {"failed to send result"} ELSE {})
    /\ UNCHANGED <<engineVars, callerVars, peerVars, inCtx>>

(***************************************************************************)
(* The deferred function of Protocol.onRequest: removes the cancel         *)
(* function of the request once onRequest has returned.                    *)
(***************************************************************************)
HandlerDone(r) ==
    /\ ~crashed
    /\ UNCHANGED <<optionVars, historyVars, ioVars>>
    /\ inPc[r] = "returning"
    /\ inPc' = [inPc EXCEPT ![r] = "done"]
    /\ requestHandlerCancel' = requestHandlerCancel \ {r}
    /\ UNCHANGED <<engineVars, callerVars, peerVars, inCtx, inResult, wire,
                   sendFailures, errors, crashed>>

\* onNotification as it would be if a handler error closed the connection
OnCancelledNotificationFatal(r) ==
    /\ ~crashed
    /\ UNCHANGED <<optionVars, progressDue, notified, ioVars>>
    /\ transport = "attached"
    /\ cancelNotes[r] < MaxCancels
    /\ cancelNotes' = [cancelNotes EXCEPT ![r] = @ + 1]
    /\ IF r \in requestHandlerCancel
       THEN /\ inCtx' = [inCtx EXCEPT ![r] = TRUE]
            /\ UNCHANGED <<errors, transport>>
       ELSE /\ errors' = errors \cup {"cancel function not found"}
            /\ transport' = "nil"
            /\ UNCHANGED inCtx
    /\ UNCHANGED <<connects, requestMessageID, responseHandlers, progressHandlers,
                   timeoutInfo, timer, callerVars, peerVars, requestHandlerCancel,
                   inPc, inResult, wire, sendFailures, crashed>>

(***************************************************************************)
(* The notifications/cancelled handler installed by NewProtocol, for       *)
(* requestId r, as called by Protocol.onNotification: calls the cancel     *)
(* function registered for r; when there is none the handler returns       *)
(* ErrCancelFunNotFound, which onNotification reports through onError.     *)
(***************************************************************************)
OnCancelledNotification(r) ==
    /\ ~crashed
    /\ UNCHANGED <<optionVars, progressDue, notified, ioVars>>
    /\ transport = "attached"
    /\ cancelNotes[r] < MaxCancels
    /\ cancelNotes' = [cancelNotes EXCEPT ![r] = @ + 1]
    /\ IF r \in requestHandlerCancel
       THEN /\ inCtx' = [inCtx EXCEPT ![r] = TRUE]
            /\ UNCHANGED errors
       ELSE /\ errors' = errors \cup {"cancel function not found"}
            /\ UNCHANGED inCtx
    /\ UNCHANGED <<engineVars, callerVars, peerVars, requestHandlerCancel,
                   inPc, inResult, wire, sendFailures, crashed>>

(***************************************************************************)
(* The steps of the engine for the Request calls of the slots in S, with a *)
(* transport that hands progress tokens over as int and with Onprogress    *)
(* callbacks that succeed.                                                 *)
(***************************************************************************)
Step(S) ==
    \/ Connect
    \/ \E s \in S : \E o \in OptionsOf(s) : RequestLoad(s, o)
    \/ \E s \in S, ok \in BOOLEAN : RequestSend(s, ok)
    \/ \E s \in S, v \in ReturnValues : RequestReturn(s, v)
    \/ \E s \in S, ok \in BOOLEAN : ContextWatcher(s, ok)
    \/ \E s \in S, ok \in BOOLEAN : TimerFire(s, ok)
    \/ \E s \in S : ContextCancel(s)
    \/ \E s \in S : ContextDeadline(s)
    \/ Tick
    \/ \E e \in BagToSet(wire), kind \in {"result", "error"} : OnResponse(e, kind)
    \/ \E e \in BagToSet(wire) : OnProgress(e, "int", FALSE)
    \/ OnClose

Next == Step(Slots)

Spec == Init /\ [][Next]_vars

(***************************************************************************)
(* One Request call on its own, with the goroutines of the engine and the  *)
(* waiting caller scheduled and time passing.  The peer and the transport  *)
(* are free to do nothing.                                                 *)
(***************************************************************************)
SingleNext == Step({1})

FairSpec ==
    /\ Init
    /\ [][SingleNext]_vars
    /\ WF_vars(Tick)
    /\ WF_vars(\E ok \in BOOLEAN : RequestSend(1, ok))
    /\ WF_vars(\E v \in ReturnValues : RequestReturn(1, v))
    /\ WF_vars(\E ok \in BOOLEAN : ContextWatcher(1, ok))
    /\ WF_vars(\E ok \in BOOLEAN : TimerFire(1, ok))

(***************************************************************************)
(* The dispatch of inbound requests on a connection.                       *)
(***************************************************************************)
InboundSteps(R) ==
    \/ \E r \in R, handler \in Handlers, metaOk \in BOOLEAN,
          okNF \in BOOLEAN, ok \in BOOLEAN : OnRequest(r, handler, metaOk, okNF, ok)
    \/ \E r \in R, res \in {"ok", "err"}, okErr \in BOOLEAN, okRes \in BOOLEAN :
          HandlerReturn(r, res, okErr, okRes)
    \/ \E r \in R : HandlerDone(r)
    \/ \E r \in R : OnCancelledNotification(r)

InboundNext ==
    \/ Connect
    \/ OnClose
    \/ InboundSteps(InboundIDs)

InboundSpec == Init /\ [][InboundNext]_vars

(***************************************************************************)
(* One Request call on a Protocol with EnforceStrictCapabilities.          *)
(***************************************************************************)
StrictSpec == StrictInit /\ [][SingleNext]_vars

(***************************************************************************)
(* One Request call and one inbound request on the same connection: the    *)
(* handlers of notifications, of progress and of requests.                 *)
(***************************************************************************)
\* progress notifications as a transport that decodes JSON delivers them
\* (the token a float64) and Onprogress callbacks that return an error
ProgressFaults ==
    \E e \in BagToSet(wire), tokenType \in TokenTypes, cbErr \in BOOLEAN :
        (tokenType # "int" \/ cbErr) /\ OnProgress(e, tokenType, cbErr)

HandlerNext ==
    \/ SingleNext
    \/ InboundSteps({1})
    \/ ProgressFaults

HandlerSpec == Init /\ [][HandlerNext]_vars

(***************************************************************************)
(* Properties.                                                             *)
(***************************************************************************)
\* the outcomes a caller can tell from the (gResp, gErr) it got back
ObservedOutcomes(v) ==
    {k \in {"result", "peer error", "cancelled", "connection closed"} :
        \/ k = "result" /\ v.r # 0 /\ v.e = NilErr
        \/ k = "peer error" /\ v.r = 0 /\ v.e = ErrPeer
        \/ k = "cancelled" /\ v.r = 0
              /\ v.e \in {ErrContextCanceled, ErrRequestTimeout, ErrMaxTotalTimeout}
        \/ k = "connection closed" /\ v.r = 0 /\ v.e = ErrConnectionClosed}

\* C1: every Request call that sent its envelope and returned hands its
\* caller exactly one outcome: the result of the response, the peer's error,
\* the cancellation reason (timeout included) or CONNECTION_CLOSED, and it is
\* the outcome the engine delivered to that call.
C1_ExactlyOneOutcome ==
    \A s \in Slots :
        pc[s] = "returned" /\ EnvelopeSent(s) =>
            /\ Cardinality(ObservedOutcomes(ret[s])) = 1
            /\ ret[s] = received[s]

\* how often value v was handed to the Request call of slot s
Delivered(s, v) ==
    CopiesIn(v, returnChan[s]) + (IF received[s] = v THEN 1 ELSE 0)

\* C2: once onClose has run, every request that was in flight at the close
\* (sent, handler registered) has been handed CONNECTION_CLOSED exactly once,
\* and a caller that has returned from such a request got the
\* CONNECTION_CLOSED error.
C2_CloseFailsInFlight ==
    \A s \in closedSnapshot :
        EnvelopeSent(s) =>
            /\ Delivered(s, ReturnValue(0, ErrConnectionClosed)) = 1
            /\ pc[s] = "returned" => ret[s].e = ErrConnectionClosed

\* C3: a request that was sent with a timeout and gets no response and no
\* progress notification does not wait forever: its timer expires and the
\* call returns (the caller supplied no context that could end it otherwise).
C3_TimeoutExpires ==
    (pc[1] = "waiting" /\ EnvelopeSent(1) /\ opts[1].ctx = "none")
        ~> (pc[1] = "returned" \/ crashed \/ progressSent[1] > 0)

\* number of notifications/cancelled the cancel path of slot s sent
CancelledSentBy(s) ==
    SumCopies({e \in BagToSet(wire) :
                  e.kind = "notifications/cancelled" /\ e.id = messageID[s] /\ e.of = s},
              wire)
\* C4: for every outbound request, however often its cancel path is
\* triggered (context and timer, in either order), at most one
\* notifications/cancelled with its id is sent to the peer.
C4_CancelAtMostOnce ==
    \A s \in Slots : CancelledSentBy(s) <= 1

\* C5: a request in flight whose RequestOptions context is cancelled
\* (explicit cancel or deadline) is eventually ended: the call returns.
C5_ContextCancelEndsRequest ==
    (pc[1] = "waiting" /\ ctx[1] \in {"canceled", "deadline_exceeded"})
        ~> (pc[1] = "returned" \/ crashed)

\* C6: with resetTimeoutOnProgress and maxTotalTimeout M, a progress
\* notification processed when the request has been in flight for M or
\* longer fails the request with REQUEST_TIMEOUT instead of re-arming.
C6_MaxTotalTimeoutBounds ==
    \A s \in Slots :
        lateProgress[s] => Delivered(s, ReturnValue(0, ErrMaxTotalTimeout)) >= 1

\* C7: a caller is only ever handed the result that answers its own request
\* envelope, never the result of another caller's request.
C7_NoCrossDelivery ==
    \A s \in Slots :
        /\ received[s].r \in {0, s}
        /\ \A v \in BagToSet(returnChan[s]) : v.r \in {0, s}

\* C8: no two Request calls are assigned the same message id.
C8_UniqueMessageIDs ==
    \A s, t \in Slots :
        s # t /\ messageID[s] # 0 /\ messageID[t] # 0 => messageID[s] # messageID[t]

\* C9: the response-handler registry holds an entry for message id m exactly
\* when request m is in flight.
C9_RegistryIffInFlight ==
    ~crashed =>
        DOMAIN responseHandlers = {messageID[s] : s \in {t \in Slots : InFlight(t)}}

\* C10: for an inbound request whose handler returned without its context
\* being cancelled (and with a working transport and readable _meta) exactly
\* one reply with the request's id was sent: an INTERNAL_ERROR Error when the
\* handler returned an error, otherwise a Response.
RepliesSent(r) == CountSent("response", r) + CountSent("error", r)
C10_ExactlyOneReply ==
    \A r \in InboundIDs :
        inPc[r] = "done" /\ inResult[r] \in {"ok", "err"} /\ sendFailures = 0 =>
            /\ RepliesSent(r) = 1
            /\ inResult[r] = "err" =>
                  CopiesIn(JSONRPCError(r, ERROR_CODE_INTERNAL_ERROR), wire) = 1
            /\ inResult[r] = "ok" => CountSent("response", r) = 1

\* C11: an inbound request for which neither a registered handler nor a
\* fallback handler exists (and whose replies the transport accepts) is
\* answered with exactly one Error METHOD_NOT_FOUND carrying its id and with
\* nothing else, and its dispatch ends there without a handler being called.
C11_MethodNotFoundOnce ==
    \A r \in InboundIDs :
        inResult[r] = "not found" /\ sendFailures = 0 =>
            /\ CopiesIn(JSONRPCError(r, ERROR_CODE_METHOD_NOT_FOUND), wire) = 1
            /\ RepliesSent(r) = 1
            /\ inPc[r] = "done"

\* C12: a notifications/cancelled for r processed while the handler of r is
\* running cancels the handler's context; and when a handler whose context
\* is cancelled returns, no Response and no Error is sent for r, then or later.
C12_CancelSuppressesReply ==
    [][\A r \in InboundIDs :
          /\ (cancelNotes'[r] # cancelNotes[r] /\ inPc[r] = "running") => inCtx'[r]
          /\ (inPc[r] = "running" /\ inCtx[r] /\ inPc'[r] # "running")
                => RepliesSent(r)' = RepliesSent(r)
          /\ inResult[r] = "cancelled" => RepliesSent(r)' = RepliesSent(r)]_vars
\* C12 witness: a handler was cancelled while running, has returned, and
\* nothing was sent for its request
C12_Witness ==
    \E r \in InboundIDs :
        /\ inPc[r] = "done" /\ inResult[r] = "cancelled"
        /\ cancelNotes[r] > 0 /\ inCtx[r] /\ RepliesSent(r) = 0

\* what a notifications/cancelled that is ignored leaves as it was
CancelIgnored(r) ==
    /\ inCtx'[r] = inCtx[r]
    /\ UNCHANGED <<wire, requestHandlerCancel, responseHandlers,
                   progressHandlers, timeoutInfo, transport>>
\* the reply to inbound request r has been sent
Answered(r) == inPc[r] \in {"returning", "done"} /\ RepliesSent(r) > 0
\* C13: a notifications/cancelled for an inbound request that has
\* already been answered, or was never received, signals no cancellation
\* handle, sends nothing, changes no registry and leaves the connection open.
C13_LateCancelIgnored ==
    [][\A r \in InboundIDs :
          (cancelNotes'[r] # cancelNotes[r] /\ (Answered(r) \/ inPc[r] = "none"))
              => CancelIgnored(r)]_vars
\* C14: with EnforceStrictCapabilities, a Request for which
\* AssertCapabilityForMethod returns an error has returned that capability
\* error, was given no message id (so no handler or timer entry) and wrote
\* nothing to the transport.
C14_StrictCapabilityRejects ==
    \A s \in Slots :
        enforceStrict /\ capErr[s] =>
            /\ pc[s] = "returned"
            /\ ret[s].e = ErrCapabilityMissing
            /\ messageID[s] = 0
            /\ \A e \in BagToSet(wire) : e.of # s

\* the steps in which a handler returns an error: the notifications/cancelled
\* handler (no cancel function), the Onprogress callback, a request handler
NotificationHandlerFails ==
    \E r \in InboundIDs : cancelNotes'[r] # cancelNotes[r] /\ r \notin requestHandlerCancel
ProgressHandlerFails ==
    progressCalls' # progressCalls /\ "progressHandler error" \in errors' \ errors
RequestHandlerFails ==
    \E r \in InboundIDs : inPc[r] = "running" /\ inResult'[r] = "err"
\* the connection is as open as before: transport attached, onClose not run,
\* the outstanding requests still registered, dispatch still possible
ConnectionKept ==
    /\ transport' = "attached"
    /\ closedSnapshot' = closedSnapshot
    /\ responseHandlers' = responseHandlers
    /\ progressHandlers' = progressHandlers
    /\ ~crashed'
C16_ProgressDelivered ==
    \A s \in Slots : ~lateProgress[s] => progressCalls[s] = progressDue[s]

(***************************************************************************)
(* The stdio server transport, inbound side.  The peer writes bytes to     *)
(* stdin; a JSON-RPC message is one line of JSON text, so a carriage       *)
(* return occurs only directly before a line feed.  Bytes "a" and "b"      *)
(* stand for the JSON text, and a message is identified with its line.     *)
(***************************************************************************)
LF == "\n"
CR == "\r"
Bytes == {"a", "b", CR, LF}

PeerWrite(b) ==
    /\ b \in Bytes
    /\ Len(stream) < MaxStream
    /\ (stream # <<>> /\ stream[Len(stream)] = CR) => b = LF
    /\ stream' = Append(stream, b)
    /\ stdin' = Append(stdin, b)
    /\ UNCHANGED <<buf, chunks, readBuffer, delivered>>
    /\ UNCHANGED <<serverVars, mcpVars, protocolVars, stdioOutVars, httpVars>>

(***************************************************************************)
(* One iteration of the reader goroutine of Start: st.stdin.Read(buf)      *)
(* stores n available bytes at the start of buf, the one slice every       *)
(* iteration reuses, and go onData(buf[:n]) starts a goroutine that has    *)
(* not yet looked at buf.                                                  *)
(***************************************************************************)
StdinRead(n) ==
    /\ n \in 1..ReadSize
    /\ n <= Len(stdin)
    /\ buf' = [i \in 1..ReadSize |-> IF i <= n THEN stdin[i] ELSE buf[i]]
    /\ stdin' = SubSeq(stdin, n + 1, Len(stdin))
    /\ chunks' = chunks (+) SetToBag({n})
    /\ UNCHANGED <<stream, readBuffer, delivered>>
    /\ UNCHANGED <<serverVars, mcpVars, protocolVars, stdioOutVars, httpVars>>

\* index of the first line feed of s, 0 if there is none
RECURSIVE IndexLF(_, _)
IndexLF(s, i) ==
    IF i > Len(s) THEN 0
    ELSE IF s[i] = LF THEN i
    ELSE IndexLF(s, i + 1)

(***************************************************************************)
(* bufio.Reader.ReadString('\n') of a bufio.Reader newly made over the     *)
(* bytes.Buffer holding b: every fill moves up to ReadSize bytes of b into *)
(* the reader.  A line feed among them ends the call with the line; the    *)
(* bytes after it that were moved stay in the reader, which is dropped.    *)
(* Without a line feed the reader goes on filling until the buffer is      *)
(* empty and returns io.EOF together with what it read.  acc: the bytes    *)
(* read so far.  Result: the line ("eof" set when there is none) and what  *)
(* is left in the bytes.Buffer.                                            *)
(***************************************************************************)
RECURSIVE ReadString(_, _)
ReadString(b, acc) ==
    IF b = <<>> THEN [line |-> acc, eof |-> TRUE, rest |-> <<>>]
    ELSE LET k == IF Len(b) < ReadSize THEN Len(b) ELSE ReadSize
             filled == SubSeq(b, 1, k)
             rest == SubSeq(b, k + 1, Len(b))
             i == IndexLF(filled, 1)
         IN  IF i > 0
             THEN [line |-> acc \o SubSeq(filled, 1, i), eof |-> FALSE, rest |-> rest]
             ELSE ReadString(rest, acc \o filled)

\* strings.TrimRight(line, "\r\n")
RECURSIVE TrimRight(_)
TrimRight(line) ==
    IF line # <<>> /\ line[Len(line)] \in {CR, LF}
    THEN TrimRight(SubSeq(line, 1, Len(line) - 1))
    ELSE line

(***************************************************************************)
(* ReadBuffer.ReadMessage on a buffer holding b: msg is the message, <<>>  *)
(* for the nil it returns at io.EOF and for an empty line.                 *)
(***************************************************************************)
ReadMessage(b) ==
    LET r == ReadString(b, <<>>) IN
    IF r.eof THEN [msg |-> <<>>, rest |-> r.rest]
    ELSE [msg |-> TrimRight(r.line), rest |-> r.rest]

\* StdioServerTransport.processReadBuffer: calls OnMessage with every
\* message ReadMessage returns until it returns nil
RECURSIVE processReadBuffer(_, _)
processReadBuffer(b, out) ==
    LET m == ReadMessage(b) IN
    IF m.msg = <<>> THEN [buffer |-> m.rest, out |-> out]
    ELSE processReadBuffer(m.rest, Append(out, m.msg))

(***************************************************************************)
(* StdioServerTransport.onData(buf[:n]) in the goroutine Start made for a  *)
(* chunk of length n: appends what buf holds now to the read buffer and    *)
(* processes it.  The goroutines of several chunks run in any order; each  *)
(* is taken as one step although nothing in the code orders them.          *)
(***************************************************************************)
OnData(n) ==
    /\ BagIn(n, chunks)
    /\ chunks' = chunks (-) SetToBag({n})
    /\ LET p == processReadBuffer(readBuffer \o SubSeq(buf, 1, n), delivered) IN
         /\ readBuffer' = p.buffer
         /\ delivered' = p.out
    /\ UNCHANGED <<stdin, stream, buf>>
    /\ UNCHANGED <<serverVars, mcpVars, protocolVars, stdioOutVars, httpVars>>

StdioReadNext ==
    \/ \E b \in Bytes : PeerWrite(b)
    \/ \E n \in 1..ReadSize : StdinRead(n)
    \/ \E n \in 1..ReadSize : OnData(n)
StdioReadSpec == Init /\ [][StdioReadNext]_vars

\* the lines of the byte sequence s that end in a line feed, without the
\* line feed and the carriage return before it, empty ones left out
RECURSIVE CompleteLines(_)
CompleteLines(s) ==
    LET i == IndexLF(s, 1) IN
    IF i = 0 THEN <<>>
    ELSE LET raw == SubSeq(s, 1, i - 1)
             line == IF raw # <<>> /\ raw[Len(raw)] = CR
                     THEN SubSeq(raw, 1, Len(raw) - 1) ELSE raw
             later == CompleteLines(SubSeq(s, i + 1, Len(s)))
         IN  IF line = <<>> THEN later ELSE <<line>> \o later

\* C17: once every byte the peer wrote has been read from stdin and every
\* chunk has been processed, the messages delivered to OnMessage are the
\* non-empty LF-terminated lines of the stream (trailing CR stripped), in
\* stream order, whatever the chunks were.
C17_DeliversEveryLine ==
    (stdin = <<>> /\ chunks = EmptyBag) => delivered = CompleteLines(stream)

(***************************************************************************)
(* The stdio server transport, outbound side: concurrent calls of Send,    *)
(* one per sender.  Send holds the read lock only while it copies the      *)
(* pointer st.stdout; Write and Flush of the shared bufio.Writer run with  *)
(* no lock, so their reads and writes of the writer's buffer (bw) and fill *)
(* count (bwN) interleave.                                                 *)
(***************************************************************************)
\* shared.StdioSerializeMessage of the message of sender k: its JSON text
\* and a line feed
StdioSerializeMessage(k) == <<ToString(k), LF>>

\* copy(dst[at:], p) on the buffer dst
CopyAt(dst, at, p) ==
    LET end == at + Len(p)
        n == IF Len(dst) > end THEN Len(dst) ELSE end
    IN  [i \in 1..n |-> IF i > at /\ i <= end THEN p[i - at] ELSE dst[i]]

\* Send up to the unlock: the message is serialized and st.stdout is read
\* under the read lock.  preceded: the Send calls that had returned before.
SendStart(k) ==
    /\ sendPc[k] = "idle"
    /\ sendPc' = [sendPc EXCEPT ![k] = "slice"]
    /\ preceded' = [preceded EXCEPT ![k] = {j \in Senders : sendPc[j] = "done"}]
    /\ UNCHANGED <<sendN, bw, bwN, stdout>>
    /\ UNCHANGED <<serverVars, mcpVars, protocolVars, stdioInVars, httpVars>>

\* bufio.Writer.Write: b.buf[b.n:] is evaluated
WriteSlice(k) ==
    /\ sendPc[k] = "slice"
    /\ sendPc' = [sendPc EXCEPT ![k] = "copy"]
    /\ sendN' = [sendN EXCEPT ![k] = bwN]
    /\ UNCHANGED <<preceded, bw, bwN, stdout>>
    /\ UNCHANGED <<serverVars, mcpVars, protocolVars, stdioInVars, httpVars>>

\* bufio.Writer.Write: n := copy(b.buf[b.n:], p); b.n += n
WriteCopy(k) ==
    /\ sendPc[k] = "copy"
    /\ sendPc' = [sendPc EXCEPT ![k] = "flush"]
    /\ bw' = CopyAt(bw, sendN[k], StdioSerializeMessage(k))
    /\ bwN' = bwN + Len(StdioSerializeMessage(k))
    /\ UNCHANGED <<sendN, preceded, stdout>>
    /\ UNCHANGED <<serverVars, mcpVars, protocolVars, stdioInVars, httpVars>>

\* bufio.Writer.Flush: b.wr.Write(b.buf[0:b.n]); b.n = 0; Send returns
Flush(k) ==
    /\ sendPc[k] = "flush"
    /\ sendPc' = [sendPc EXCEPT ![k] = "done"]
    /\ stdout' = stdout \o SubSeq(bw, 1, bwN)
    /\ bwN' = 0
    /\ UNCHANGED <<sendN, preceded, bw>>
    /\ UNCHANGED <<serverVars, mcpVars, protocolVars, stdioInVars, httpVars>>

StdioSendNext ==
    \/ \E k \in Senders : SendStart(k)
    \/ \E k \in Senders : WriteSlice(k)
    \/ \E k \in Senders : WriteCopy(k)
    \/ \E k \in Senders : Flush(k)
StdioSendSpec == Init /\ [][StdioSendNext]_vars

\* the places of stdout at which the line of sender k stands
LinesOf(k) ==
    {i \in 1..Len(stdout) :
        /\ i + Len(StdioSerializeMessage(k)) - 1 <= Len(stdout)
        /\ SubSeq(stdout, i, i + Len(StdioSerializeMessage(k)) - 1)
              = StdioSerializeMessage(k)}
\* the number of bytes of the lines of all senders
RECURSIVE TotalLen(_)
TotalLen(n) == IF n = 0 THEN 0 ELSE Len(StdioSerializeMessage(n)) + TotalLen(n - 1)

\* C18: when every Send call has returned, stdout holds the line of each
\* message exactly once and nothing else, and the line of a Send that had
\* returned before another was called stands before that other's line.
C18_SendsDoNotInterleave ==
    (\A k \in Senders : sendPc[k] = "done") =>
        /\ Len(stdout) = TotalLen(NumSenders)
        /\ \A k \in Senders : Cardinality(LinesOf(k)) = 1
        /\ \A k \in Senders : \A j \in preceded[k] :
              \A i \in LinesOf(j), l \in LinesOf(k) : i < l

(***************************************************************************)
(* The streamable HTTP server transport.  httpLog holds, for every request *)
(* HandleRequest has handled, what was asked and what the handler did:     *)
(* written, the status codes passed to WriteHeader in order (the client    *)
(* gets the first); outcome, "rejected" when the handler returned before   *)
(* the request took effect, "accepted" when its messages were handed to    *)
(* OnMessage or its event stream was registered, "panic" when the handler  *)
(* goroutine panicked; sessionHeader, whether an mcp-session-id response   *)
(* header was set.                                                         *)
(***************************************************************************)
StatusOK == 200
StatusAccepted == 202
StatusFound == 302
StatusBadRequest == 400
StatusNotFound == 404
StatusNotAcceptable == 406
StatusConflict == 409
StatusUnsupportedMediaType == 415

\* values of the mcp-session-id request header ("": absent); all alphanumeric
SessionHeaders == {"", "s1", "s2"}
\* what opts.SessionIDGenerator returns
GeneratedSessionID == "s1"
\* kinds of POST body
BodyKinds == {"initialize", "request", "notification"}
\* the key of the standalone event stream in streamMapping
standaloneSseStreamID == "standalone"

\* the stream under which event k of an earlier connection was stored, and
\* the events an application's EventStore holds when the transport is made:
\* ids 1, 2, ... in stored order, the last one of another stream
StreamOfStored(k) == IF k = NumStored THEN "b" ELSE "a"
\* a JSON-RPC message: its kind and its id (for a response or an error, the
\* id of the request it answers)
Message(kind, id) == [kind |-> kind, id |-> id]
StoredEvent(streamID, id) ==
    [stream |-> streamID, id |-> id, msg |-> Message("notification", id)]
PriorEvents == [k \in 1..NumStored |-> StoredEvent(StreamOfStored(k), k)]
\* the values of opts.EventStore
EventStores == {NilStore, [nil |-> FALSE, events |-> PriorEvents]}

\* NewStreamableHTTPServerTransport: stateful when the options hold a
\* session id generator; no field holding a map is allocated
NewStreamableHTTPServerTransport(generator, json, store) ==
    /\ httpMode = "unbuilt"
    /\ store \in EventStores
    /\ httpMode' = IF generator THEN "stateful" ELSE "stateless"
    /\ initialized' = FALSE
    /\ SessionID' = ""
    /\ streamMapping' = "nil"
    /\ requestToStreamMapping' = "nil"
    /\ requestResponseMap' = "nil"
    /\ enableJSONResponse' = json
    /\ eventStore' = store
    /\ UNCHANGED <<httpLog, frames, sendLog>>
    /\ UNCHANGED <<serverVars, mcpVars, protocolVars, stdioInVars, stdioOutVars>>

\* validateSession for a request with session header h: the status codes
\* it writes and its result
validateSession(h) ==
    IF httpMode = "stateless" THEN [written |-> <<>>, ok |-> TRUE]
    ELSE LET notInit == IF ~initialized THEN <<StatusBadRequest>> ELSE <<>>
         IN  IF h = ""
             THEN [written |-> notInit \o <<StatusBadRequest>>, ok |-> FALSE]
             ELSE IF h # SessionID
             THEN [written |-> notInit \o <<StatusFound>>, ok |-> TRUE]
             ELSE [written |-> notInit, ok |-> TRUE]

\* validateProtocolVersion: versionOk, the mcp-protocol-version header is
\* absent or names a supported version
validateProtocolVersion(versionOk) ==
    IF versionOk THEN [written |-> <<>>, ok |-> TRUE]
    ELSE [written |-> <<StatusBadRequest>>, ok |-> FALSE]

\* the record of one handled request
\* (batch: the number of messages in its body; wasInitialized: s.initialized
\* when it arrived; lastEventID: its last-event-id header, 0 when absent)
Handled(method, kind, batch, h, versionOk, lastEventID, reached, written, outcome, sessionHeader) ==
    [method |-> method, kind |-> kind, batch |-> batch, header |-> h,
     lastEventID |-> lastEventID,
     versionOk |-> versionOk, wasInitialized |-> initialized,
     reached |-> reached, written |-> written, outcome |-> outcome,
     sessionHeader |-> sessionHeader]

\* writeSSEEvent: the frame with the event id and the message, handed to
\* the writer w by two consecutive Write calls
writeSSEEvent(w, msg, eventID) ==
    LET frame == [to |-> w, id |-> eventID, msg |-> msg] IN <<frame, frame>>

\* EventStore.ReplayEventsAfter: whether lastEventID is an event of the
\* store, the stream it belongs to, and the later events of that stream
Known(lastEventID) == ~eventStore.nil /\ lastEventID \in DOMAIN eventStore.events
RECURSIVE EventsAfter(_, _, _)
EventsAfter(store, streamID, k) ==
    IF k > Len(store) THEN <<>>
    ELSE (IF store[k].stream = streamID THEN <<store[k]>> ELSE <<>>)
             \o EventsAfter(store, streamID, k + 1)

\* the frames replayEvents writes to w for the events evs when the Write
\* of event number failAt fails (0: none does)
RECURSIVE ReplayFrames(_, _, _, _)
ReplayFrames(w, evs, k, failAt) ==
    IF k > Len(evs) \/ k = failAt THEN <<>>
    ELSE writeSSEEvent(w, evs[k].msg, evs[k].id) \o ReplayFrames(w, evs, k + 1, failAt)

\* the response writer of the request HandleRequest is handling
Writer == ToString(Len(httpLog) + 1)

(***************************************************************************)
(* handleGetRequest.  lastEventID: the last-event-id header (0: absent).   *)
(* With an event store and a last-event-id the request is handed to        *)
(* replayEvents: it sends the headers of an event stream with status 200   *)
(* and then asks the store, which calls back for every later event; an     *)
(* unknown id is reported to OnError only.  The callback sends on the      *)
(* unbuffered waitResponse when a write fails, which nothing receives yet; *)
(* after a replay without failure replayEvents receives from waitResponse, *)
(* on which nothing sends: either way the goroutine blocks before          *)
(* streamMapping.Set.  Otherwise s.streamMapping.Get and Set are reached:  *)
(* methods that lock xm.mu, they panic on the nil pointer the constructor  *)
(* leaves in streamMapping.  reached: the request got as far as the test   *)
(* for an open standalone stream.                                          *)
(***************************************************************************)
handleGetRequest(h, acceptOk, versionOk, lastEventID, failAt) ==
    /\ httpMode # "unbuilt"
    /\ Len(httpLog) < MaxHttpRequests
    /\ h \in SessionHeaders
    /\ LET vs == validateSession(h)
           vp == validateProtocolVersion(versionOk)
           log(reached, written, outcome, sh) ==
               httpLog' = Append(httpLog, Handled("GET", "none", 0, h, versionOk, lastEventID, reached, written, outcome, sh))
       IN  IF ~acceptOk
           THEN log(FALSE, <<StatusNotAcceptable>>, "rejected", FALSE)
                   /\ UNCHANGED <<streamMapping, frames>>
           ELSE IF ~vs.ok
           THEN log(FALSE, vs.written, "rejected", FALSE)
                   /\ UNCHANGED <<streamMapping, frames>>
           ELSE IF ~vp.ok
           THEN log(FALSE, vs.written \o vp.written, "rejected", FALSE)
                   /\ UNCHANGED <<streamMapping, frames>>
           ELSE IF ~eventStore.nil /\ lastEventID # 0
           THEN IF ~Known(lastEventID)
                THEN log(FALSE, vs.written \o <<StatusOK>>, "ended", SessionID # "")
                        /\ UNCHANGED <<streamMapping, frames>>
                ELSE LET evs == EventsAfter(eventStore.events, eventStore.events[lastEventID].stream,
                                            lastEventID + 1)
                     IN  /\ frames' = frames \o ReplayFrames(Writer, evs, 1, failAt)
                         /\ log(FALSE, vs.written \o <<StatusOK>>, "blocked", SessionID # "")
                         /\ UNCHANGED streamMapping
           ELSE IF streamMapping = "nil"
           THEN log(TRUE, vs.written, "panic", FALSE) /\ UNCHANGED <<streamMapping, frames>>
           ELSE IF standaloneSseStreamID \in streamMapping
           THEN log(TRUE, vs.written \o <<StatusConflict>>, "rejected", FALSE)
                   /\ UNCHANGED <<streamMapping, frames>>
           ELSE /\ log(TRUE, vs.written \o <<StatusOK>>, "accepted", SessionID # "")
                /\ streamMapping' = streamMapping \cup {standaloneSseStreamID}
                /\ UNCHANGED frames
    /\ UNCHANGED <<httpMode, initialized, SessionID, enableJSONResponse, eventStore,
                   requestToStreamMapping, requestResponseMap, sendLog>>
    /\ UNCHANGED <<serverVars, mcpVars, protocolVars, stdioInVars, stdioOutVars>>

(***************************************************************************)
(* handlePostRequest with a body of n messages of the given kind.  An      *)
(* initialization is refused when the session is set up already and        *)
(* whenever len(messages) > 0.  For requests the headers of an event       *)
(* stream are sent with status 200 if enableJSONResponse is set, and the   *)
(* stream and the request ids are registered before the messages are       *)
(* handed to OnMessage.                                                    *)
(***************************************************************************)
\* the ids of the requests in the body of the i-th handled request, a POST
\* of n requests: the first POST numbers its requests from 0
RequestIDsOf(i, n) == {(i - 1) * MaxBatch + k : k \in 0..(n - 1)}
\* the stream id handlePostRequest makes for the i-th handled request
PostStreamID(i) == ToString(i)

handlePostRequest(kind, n, h, acceptOk, ctOk, versionOk) ==
    /\ httpMode # "unbuilt"
    /\ Len(httpLog) < MaxHttpRequests
    /\ kind \in BodyKinds
    /\ h \in SessionHeaders
    /\ n >= 1
    /\ LET vs == validateSession(h)
           vp == validateProtocolVersion(versionOk)
           log(reached, written, outcome, sh) ==
               httpLog' = Append(httpLog, Handled("POST", kind, n, h, versionOk, 0, reached, written, outcome, sh))
           \* the 200 of lines 540-556 and its mcp-session-id header
           early == IF enableJSONResponse THEN <<StatusOK>> ELSE <<>>
           jsonSession == enableJSONResponse /\ SessionID # ""
           \* lines 559-570 with the maps allocated
           register(written) ==
               /\ log(TRUE, written, "accepted", jsonSession)
               /\ streamMapping' = streamMapping \cup {PostStreamID(Len(httpLog) + 1)}
               /\ IF requestToStreamMapping = "nil"
                  THEN UNCHANGED requestToStreamMapping
                  ELSE requestToStreamMapping' =
                          [r \in DOMAIN requestToStreamMapping
                                    \cup RequestIDsOf(Len(httpLog) + 1, n) |->
                              IF r \in RequestIDsOf(Len(httpLog) + 1, n)
                              THEN PostStreamID(Len(httpLog) + 1)
                              ELSE requestToStreamMapping[r]]
       IN  IF ~acceptOk
           THEN log(FALSE, <<StatusNotAcceptable>>, "rejected", FALSE)
                   /\ UNCHANGED <<initialized, SessionID, streamMapping,
                                  requestToStreamMapping>>
           ELSE IF ~ctOk
           THEN log(FALSE, <<StatusUnsupportedMediaType>>, "rejected", FALSE)
                   /\ UNCHANGED <<initialized, SessionID, streamMapping,
                                  requestToStreamMapping>>
           ELSE IF kind = "initialize"
           THEN IF (initialized /\ SessionID # "") \/ n > 0
                THEN log(FALSE, <<StatusBadRequest>>, "rejected", FALSE)
                        /\ UNCHANGED <<initialized, SessionID, streamMapping,
                                       requestToStreamMapping>>
                ELSE /\ httpMode = "stateful"
                     /\ SessionID' = GeneratedSessionID
                     /\ initialized' = TRUE
                     /\ IF streamMapping = "nil"
                        THEN log(TRUE, early, "panic", jsonSession)
                                /\ UNCHANGED <<streamMapping, requestToStreamMapping>>
                        ELSE register(early)
           ELSE IF ~vs.ok
           THEN log(FALSE, vs.written, "rejected", FALSE)
                   /\ UNCHANGED <<initialized, SessionID, streamMapping,
                                  requestToStreamMapping>>
           ELSE IF ~vp.ok
           THEN log(FALSE, vs.written \o vp.written, "rejected", FALSE)
                   /\ UNCHANGED <<initialized, SessionID, streamMapping,
                                  requestToStreamMapping>>
           ELSE IF kind = "notification"
           THEN log(TRUE, vs.written \o <<StatusAccepted>>, "accepted", FALSE)
                   /\ UNCHANGED <<initialized, SessionID, streamMapping,
                                  requestToStreamMapping>>
           ELSE IF streamMapping = "nil"
           THEN log(TRUE, vs.written \o early, "panic", jsonSession)
                   /\ UNCHANGED <<initialized, SessionID, streamMapping,
                                  requestToStreamMapping>>
           ELSE /\ register(vs.written \o early)
                /\ UNCHANGED <<initialized, SessionID>>
    /\ UNCHANGED <<httpMode, enableJSONResponse, eventStore, requestResponseMap,
                   frames, sendLog>>
    /\ UNCHANGED <<serverVars, mcpVars, protocolVars, stdioInVars, stdioOutVars>>

(***************************************************************************)
(* Send.  msg: the message; opts: NilOptions for a nil options pointer,    *)
(* else the options' RelatedRequestID, 0 when the caller set none.  The    *)
(* first statement reads opts.RelatedRequestID and panics on nil options.  *)
(* The type switch has an empty case for a response, so only an error      *)
(* takes the request id from the message.  Request id 0 means the          *)
(* standalone stream.  Every path but the refusal of a response for id 0   *)
(* goes on to s.streamMapping.Get or s.requestToStreamMapping.Get, which   *)
(* panic on the nil pointers the constructor leaves.  storeOk, writeOk:    *)
(* whether StoreEvent and the second Write succeed.  sendLog records each  *)
(* call: result, "panic", "error" (an error was returned), "dropped"       *)
(* (nil, nil without a write) or "written"; to, the stream written to;     *)
(* body, the request ids answered in a JSON body written by the call;      *)
(* after, the number of requests HandleRequest had handled before it.      *)
(***************************************************************************)
NilOptions == -1
SendKinds == {"response", "error", "notification", "request"}
\* the request ids Send is called with
SendIDs == 0..(MaxBatch - 1)
Sent(msg, sendOpts, result, to, body) ==
    [kind |-> msg.kind, id |-> msg.id, opts |-> sendOpts, result |-> result,
     to |-> to, body |-> body, after |-> Len(httpLog)]

\* EventStore.StoreEvent: the store with the event appended under the next id
StoreEvent(store, streamID, msg) ==
    [store EXCEPT !.events =
        Append(@, [stream |-> streamID, id |-> Len(@) + 1, msg |-> msg])]

Send(msg, sendOpts, storeOk, writeOk) ==
    /\ httpMode # "unbuilt"
    /\ Len(sendLog) < MaxSends
    /\ msg.kind \in SendKinds
    /\ LET isResponse == msg.kind \in {"response", "error"}
           requestID == IF msg.kind = "error" THEN msg.id ELSE sendOpts
           log(result, to, body) ==
               sendLog' = Append(sendLog, Sent(msg, sendOpts, result, to, body))
           \* lines 661-675 and 689-702: store the event, then write it
           storeAndWrite(streamID) ==
               IF ~eventStore.nil /\ ~storeOk
               THEN [ok |-> FALSE, store |-> eventStore, frames |-> frames]
               ELSE LET store == IF eventStore.nil THEN eventStore
                                 ELSE StoreEvent(eventStore, streamID, msg)
                        eventID == IF eventStore.nil THEN 0 ELSE Len(store.events)
                    IN  [ok |-> writeOk, store |-> store,
                         frames |-> frames \o writeSSEEvent(streamID, msg, eventID)]
       IN  IF sendOpts = NilOptions
           THEN log("panic", "", {})
                   /\ UNCHANGED <<eventStore, frames, requestToStreamMapping, requestResponseMap>>
           ELSE IF requestID = 0
           THEN IF isResponse
                THEN log("error", "", {})
                        /\ UNCHANGED <<eventStore, frames, requestToStreamMapping,
                                       requestResponseMap>>
                ELSE IF streamMapping = "nil"
                THEN log("panic", "", {})
                        /\ UNCHANGED <<eventStore, frames, requestToStreamMapping,
                                       requestResponseMap>>
                ELSE IF standaloneSseStreamID \notin streamMapping
                THEN log("dropped", "", {})
                        /\ UNCHANGED <<eventStore, frames, requestToStreamMapping,
                                       requestResponseMap>>
                ELSE LET w == storeAndWrite(standaloneSseStreamID)
                     IN  /\ eventStore' = w.store
                         /\ frames' = w.frames
                         /\ log(IF w.ok THEN "written" ELSE "error",
                                standaloneSseStreamID, {})
                         /\ UNCHANGED <<requestToStreamMapping, requestResponseMap>>
           ELSE IF requestToStreamMapping = "nil" \/ streamMapping = "nil"
           THEN log("panic", "", {})
                   /\ UNCHANGED <<eventStore, frames, requestToStreamMapping, requestResponseMap>>
           ELSE IF requestID \notin DOMAIN requestToStreamMapping
                    \/ requestToStreamMapping[requestID] \notin streamMapping
           THEN log("error", "", {})
                   /\ UNCHANGED <<eventStore, frames, requestToStreamMapping, requestResponseMap>>
           ELSE LET streamID == requestToStreamMapping[requestID]
                    w == IF enableJSONResponse
                         THEN [ok |-> TRUE, store |-> eventStore, frames |-> frames]
                         ELSE storeAndWrite(streamID)
                    allRequestID == {r \in DOMAIN requestToStreamMapping :
                                        requestToStreamMapping[r] = streamID}
                    ready == IF requestResponseMap = "nil" THEN {}
                             ELSE requestResponseMap \cup {requestID}
                    allResponsesReady == allRequestID \subseteq ready
                IN  /\ eventStore' = w.store
                    /\ frames' = w.frames
                    /\ IF ~w.ok
                       THEN log("error", streamID, {})
                               /\ UNCHANGED <<requestToStreamMapping, requestResponseMap>>
                       ELSE IF ~isResponse
                       THEN log("written", streamID, {})
                               /\ UNCHANGED <<requestToStreamMapping, requestResponseMap>>
                       ELSE IF requestResponseMap = "nil"
                       THEN log("panic", streamID, {})
                               /\ UNCHANGED <<requestToStreamMapping, requestResponseMap>>
                       ELSE IF ~allResponsesReady
                       THEN log("written", streamID, {})
                               /\ requestResponseMap' = ready
                               /\ UNCHANGED requestToStreamMapping
                       ELSE /\ log("written", streamID,
                                   IF enableJSONResponse THEN allRequestID ELSE {})
                            /\ requestResponseMap' = ready \ allRequestID
                            /\ requestToStreamMapping' =
                                  [r \in DOMAIN requestToStreamMapping \ allRequestID |->
                                      requestToStreamMapping[r]]
    /\ UNCHANGED <<httpMode, initialized, SessionID, streamMapping, httpLog,
                   enableJSONResponse>>
    /\ UNCHANGED <<serverVars, mcpVars, protocolVars, stdioInVars, stdioOutVars>>


\* requests and sessions, for a transport with neither JSON responses nor
\* an event store
HttpNext ==
    \/ \E generator \in BOOLEAN : NewStreamableHTTPServerTransport(generator, FALSE, NilStore)
    \/ \E h \in SessionHeaders, acceptOk \in BOOLEAN, versionOk \in BOOLEAN :
          handleGetRequest(h, acceptOk, versionOk, 0, 0)
    \/ \E kind \in BodyKinds, n \in 1..MaxBatch, h \in SessionHeaders,
          acceptOk \in BOOLEAN, ctOk \in BOOLEAN, versionOk \in BOOLEAN :
          handlePostRequest(kind, n, h, acceptOk, ctOk, versionOk)
HttpSpec == Init /\ [][HttpNext]_vars

\* requests, replays and sends, for a transport with any options: GETs with
\* a last-event-id header, POSTs of requests and notifications, and calls
\* of Send
HttpSendNext ==
    \/ \E json \in BOOLEAN, store \in EventStores :
          NewStreamableHTTPServerTransport(FALSE, json, store)
    \/ \E lastEventID \in 0..(NumStored + 1), failAt \in 0..1 :
          handleGetRequest("", TRUE, TRUE, lastEventID, failAt)
    \/ \E kind \in {"request", "notification"}, n \in 1..MaxBatch :
          handlePostRequest(kind, n, "", TRUE, TRUE, TRUE)
    \/ \E kind \in SendKinds, id \in SendIDs, sendOpts \in {NilOptions} \cup SendIDs,
          storeOk \in BOOLEAN, writeOk \in BOOLEAN :
          /\ kind \in {"notification", "request"} => id = 0
          /\ Send(Message(kind, id), sendOpts, storeOk, writeOk)
HttpSendSpec == Init /\ [][HttpSendNext]_vars

\* the status the client of a handled request receives: the first code
\* passed to WriteHeader, 0 when the handler wrote none
StatusOf(r) == IF r.written = <<>> THEN 0 ELSE r.written[1]

\* C19: a GET that gets as far as the test for an open standalone stream
\* is accepted with 200 and registered when none is open, and rejected with
\* 409 when one is; so at most one standalone stream is registered.
C19_OneStandaloneStream ==
    \A i \in DOMAIN httpLog :
        (httpLog[i].method = "GET" /\ httpLog[i].reached) =>
            \/ httpLog[i].outcome = "accepted" /\ StatusOf(httpLog[i]) = StatusOK
                  /\ streamMapping # "nil" /\ standaloneSseStreamID \in streamMapping
            \/ httpLog[i].outcome = "rejected" /\ StatusOf(httpLog[i]) = StatusConflict

\* C20: a request other than an initialization whose Accept, Content-Type
\* and protocol version headers are in order is, in stateful mode, rejected
\* with 400 when it has no mcp-session-id header and with 404 when the
\* header differs from the session id; in stateless mode it is not stopped
\* whatever its session header, and no response carries an mcp-session-id
\* header.
C20_SessionHeaderChecked ==
    \A i \in DOMAIN httpLog :
        LET r == httpLog[i]
            checked == /\ r.kind # "initialize"
                       /\ r.versionOk
                       /\ StatusOf(r) \notin {StatusNotAcceptable, StatusUnsupportedMediaType}
        IN  /\ (httpMode = "stateful" /\ checked /\ r.header = "") =>
                  r.outcome = "rejected" /\ StatusOf(r) = StatusBadRequest
            /\ (httpMode = "stateful" /\ checked /\ r.header # "" /\ r.header # SessionID) =>
                  r.outcome = "rejected" /\ StatusOf(r) = StatusNotFound
            /\ (httpMode = "stateless" /\ checked) => r.reached
            /\ httpMode = "stateless" => ~r.sessionHeader

\* the status codes with which the transport refuses a request
ErrorStatuses == {StatusBadRequest, StatusNotFound, StatusNotAcceptable,
                  StatusConflict, StatusUnsupportedMediaType}

\* C21: a request to which the transport has written an error status was
\* stopped there: that status is the only response written, none of its
\* messages reached the engine and no stream was registered for it.
C21_ErrorStopsProcessing ==
    \A i \in DOMAIN httpLog :
        (\E j \in DOMAIN httpLog[i].written : httpLog[i].written[j] \in ErrorStatuses) =>
            /\ Len(httpLog[i].written) = 1
            /\ httpLog[i].outcome = "rejected"
            /\ ~httpLog[i].reached

\* C22: in stateful mode a POST (with proper Accept and Content-Type) whose
\* body is one initialize request, arriving while the transport is not
\* initialized, is accepted and leaves the transport initialized with a
\* generated session id; an initialize in a larger batch or on an
\* initialized transport is answered 400.
C22_InitializeAccepted ==
    \A i \in DOMAIN httpLog :
        LET r == httpLog[i] IN
        (/\ httpMode = "stateful" /\ r.method = "POST" /\ r.kind = "initialize"
         /\ StatusOf(r) \notin {StatusNotAcceptable, StatusUnsupportedMediaType}) =>
            IF r.batch = 1 /\ ~r.wasInitialized
            THEN r.outcome # "rejected" /\ StatusOf(r) # StatusBadRequest
                    /\ initialized /\ SessionID = GeneratedSessionID
            ELSE r.outcome = "rejected" /\ StatusOf(r) = StatusBadRequest

\* the request a sent message belongs to: the request a response or an
\* error answers, the RelatedRequestID of a notification or a request
RelatedOf(m) == IF m.kind \in {"response", "error"} THEN m.id ELSE m.opts

\* the handled requests that are POSTs carrying request r
PostsCarrying(r) ==
    {i \in DOMAIN httpLog : /\ httpLog[i].method = "POST"
                            /\ httpLog[i].kind = "request"
                            /\ httpLog[i].reached
                            /\ r \in RequestIDsOf(i, httpLog[i].batch)}

\* C23: a message sent for request r (a notification or request with
\* RelatedRequestID r, or the response or error for r) after the POST that
\* carried r was handled is written to the stream of that POST, for every
\* r including 0.
C23_RelatedGoToPostStream ==
    \A k \in DOMAIN sendLog :
        \A i \in PostsCarrying(RelatedOf(sendLog[k])) :
            i <= sendLog[k].after =>
                sendLog[k].result = "written" /\ sendLog[k].to = PostStreamID(i)

\* the requests of the POST handled i-th that Send was given a response or
\* an error for, after the POST was handled
AnsweredOf(i) ==
    {r \in RequestIDsOf(i, httpLog[i].batch) :
        \E k \in DOMAIN sendLog : /\ sendLog[k].kind \in {"response", "error"}
                                  /\ sendLog[k].id = r
                                  /\ i <= sendLog[k].after}

\* C24: in JSON-response mode a POST of requests is taken on without any
\* status or header being sent; no Send writes a body for it while one of
\* its requests lacks a response, and when all have one exactly one Send
\* has written one JSON body, holding the responses of all its requests.
C24_OneJsonBody ==
    \A i \in DOMAIN httpLog :
        (/\ enableJSONResponse /\ httpLog[i].method = "POST"
         /\ httpLog[i].kind = "request" /\ httpLog[i].reached) =>
            LET ids == RequestIDsOf(i, httpLog[i].batch)
                bodies == {k \in DOMAIN sendLog : sendLog[k].body \cap ids # {}}
            IN  /\ httpLog[i].written = <<>>
                /\ httpLog[i].outcome = "accepted"
                /\ IF AnsweredOf(i) = ids
                   THEN Cardinality(bodies) = 1
                           /\ \A k \in bodies : sendLog[k].body = ids
                   ELSE bodies = {}

\* C25: with an event store, every frame written carries the id and the
\* message of an event the store holds, and every message Send has written
\* to an event stream is held by the store under the id of that stream.
C25_StoredBeforeWritten ==
    ~eventStore.nil =>
        /\ \A j \in DOMAIN frames :
              \E k \in DOMAIN eventStore.events :
                  /\ eventStore.events[k].id = frames[j].id
                  /\ eventStore.events[k].msg = frames[j].msg
        /\ \A n \in DOMAIN sendLog :
              (sendLog[n].result = "written" /\ ~enableJSONResponse) =>
                  \E k \in DOMAIN eventStore.events :
                      /\ eventStore.events[k].stream = sendLog[n].to
                      /\ eventStore.events[k].msg = Message(sendLog[n].kind, sendLog[n].id)
                      /\ \E j \in DOMAIN frames : /\ frames[j].to = sendLog[n].to
                                                  /\ frames[j].id = eventStore.events[k].id
                                                  /\ frames[j].msg = eventStore.events[k].msg

\* C26: with an event store, the event ids of the frames written to any
\* one writer are strictly increasing in the order of the writes.
C26_EventIdsIncrease ==
    ~eventStore.nil =>
        \A j, k \in DOMAIN frames :
            (j < k /\ frames[j].to = frames[k].to) => frames[j].id < frames[k].id

\* the frames written to the response writer of the i-th handled request
FramesTo(i) == SelectSeq(frames, LAMBDA f : f.to = ToString(i))

\* the GETs that resume after an event the store knows
Resumptions ==
    {i \in DOMAIN httpLog : /\ httpLog[i].method = "GET"
                            /\ httpLog[i].lastEventID # 0
                            /\ Known(httpLog[i].lastEventID)}

\* C27: a GET with a last-event-id the store knows ends accepted, with its
\* writer registered under the replayed stream id; once a frame has been
\* written to it, the frames written to it are one per event stored after
\* that id in that stream, in stored order, each with the event's id.
C27_ReplayInOrder ==
    \A i \in Resumptions :
        LET e == httpLog[i].lastEventID
            evs == EventsAfter(eventStore.events, eventStore.events[e].stream, e + 1)
        IN  /\ httpLog[i].outcome = "accepted"
            /\ streamMapping # "nil"
            /\ FramesTo(i) # <<>> =>
                  FramesTo(i) = [k \in 1..Len(evs) |->
                                    [to |-> ToString(i), id |-> evs[k].id, msg |-> evs[k].msg]]

\* the GETs with a last-event-id the store does not know
FailedResumptions ==
    {i \in DOMAIN httpLog : /\ httpLog[i].method = "GET"
                            /\ ~eventStore.nil
                            /\ httpLog[i].lastEventID # 0
                            /\ ~Known(httpLog[i].lastEventID)}

\* C28: a GET whose last-event-id the store does not know is not answered
\* with status 200 and ends rejected, with no frame written to it and no
\* writer registered.
C28_UnknownIdSignalled ==
    \A i \in FailedResumptions :
        /\ StatusOf(httpLog[i]) # StatusOK
        /\ httpLog[i].outcome = "rejected"
        /\ FramesTo(i) = <<>>
        /\ streamMapping = "nil" \/ streamMapping = {}

(***************************************************************************)
(* McpServer: registration, the closures of a registered item, and the     *)
(* list and call handlers.                                                 *)
(***************************************************************************)
\* the code of lastOp for a call that returned an error that is no McpError
ReturnedError == 1

\* wrapperOnErrorServer after fn has returned: the caller receives from
\* chanError.  Only the callback given to SetOnErrorCallBack sends on it, and
\* Server.OnError, which logs the error, does not call the callback.
wrapperOnErrorServer(call) == [wrapperPc EXCEPT ![call] = "waiting"]

\* McpServer.Connect as far as Protocol.Connect attaches the transport
McpConnect ==
    /\ mcpOps < MaxMcpOps
    /\ serverTransport = "nil"
    /\ serverTransport' = "attached"
    /\ lastOp' = Called("Connect", "", "", NoUpdates, 0, 0, {})
    /\ mcpOps' = mcpOps + 1
    /\ wrapperPc' = wrapperOnErrorServer("Connect")
    /\ UNCHANGED <<serverCapabilities, handlersInitialized, registeredTools,
                   registeredPrompts, toolResult, promptResult>>
    /\ UNCHANGED <<requestHandlers, serverLog, codec>>
    /\ UNCHANGED <<protocolVars, stdioInVars, stdioOutVars, httpVars>>

\* McpServer.Close: Protocol.Close calls Close on the transport, a nil
\* interface when none is attached; the transport's Close runs the
\* Protocol's onClose, which detaches it
McpClose ==
    /\ mcpOps < MaxMcpOps
    /\ IF serverTransport = "nil"
       THEN wrapperPc' = [wrapperPc EXCEPT !["Close"] = "panicked"]
       ELSE wrapperPc' = wrapperOnErrorServer("Close")
    /\ serverTransport' = "nil"
    /\ lastOp' = Called("Close", "", "", NoUpdates, 0, 0, {})
    /\ mcpOps' = mcpOps + 1
    /\ UNCHANGED <<serverCapabilities, handlersInitialized, registeredTools,
                   registeredPrompts, toolResult, promptResult>>
    /\ UNCHANGED <<requestHandlers, serverLog, codec>>
    /\ UNCHANGED <<protocolVars, stdioInVars, stdioOutVars, httpVars>>

\* SendToolListChanged, SendPromptListChanged: the notifications handed to
\* the transport by one call, none when the server is not connected or when
\* Notification fails AssertNotificationCapability
ListChangedSent(cap) ==
    IF serverTransport = "attached" /\ cap \in serverCapabilities THEN 1 ELSE 0
\* whether that call returns an error
ListChangedFails(cap) == serverTransport = "attached" /\ cap \notin serverCapabilities

\* the capability and the flag of a kind of item
CapOf(kind) == IF kind = "tool" THEN "tools" ELSE "prompts"
NamesOf(kind) == IF kind = "tool" THEN ToolNames ELSE PromptNames
RegistryOf(kind) == IF kind = "tool" THEN registeredTools ELSE registeredPrompts
ResultOf(kind) == IF kind = "tool" THEN toolResult ELSE promptResult

(***************************************************************************)
(* RegisterTool and RegisterPrompt (kind says which).  The item is put in  *)
(* the map before the handlers are set: setToolRequestHandlers fails on a  *)
(* connected server whose handlers are not set yet, because                *)
(* RegisterCapabilities refuses after connecting, and the call then        *)
(* returns the error and no handle.  RegisterCapabilities assigns          *)
(* s.capabilities, replacing what an earlier call registered.              *)
(***************************************************************************)
Register(kind, name, title) ==
    /\ mcpOps < MaxMcpOps
    /\ name \in NamesOf(kind)
    /\ ~RegistryOf(kind)[name].present
    /\ LET result == Registered(title, TRUE)
           cap == CapOf(kind)
           refused == cap \notin handlersInitialized /\ serverTransport # "nil"
           failed == refused \/ ListChangedFails(cap)
       IN  /\ IF kind = "tool"
              THEN /\ registeredTools' = [registeredTools EXCEPT ![name] = result]
                   /\ toolResult' = IF failed THEN toolResult
                                    ELSE [toolResult EXCEPT ![name] = result]
                   /\ UNCHANGED <<registeredPrompts, promptResult>>
              ELSE /\ registeredPrompts' = [registeredPrompts EXCEPT ![name] = result]
                   /\ promptResult' = IF failed THEN promptResult
                                      ELSE [promptResult EXCEPT ![name] = result]
                   /\ UNCHANGED <<registeredTools, toolResult>>
           /\ IF cap \in handlersInitialized \/ refused
              THEN UNCHANGED <<handlersInitialized, serverCapabilities>>
              ELSE /\ handlersInitialized' = handlersInitialized \cup {cap}
                   /\ serverCapabilities' = {cap}
           /\ lastOp' = Called("Register", kind, name, NoUpdates,
                               IF refused THEN 0 ELSE ListChangedSent(cap),
                               IF failed THEN ReturnedError ELSE 0, {})
    /\ mcpOps' = mcpOps + 1
    /\ UNCHANGED serverTransport
    /\ UNCHANGED <<serverVars, protocolVars, stdioInVars, stdioOutVars, httpVars>>
RegisterTool(name, title) == Register("tool", name, title)
RegisterPrompt(name, title) == Register("prompt", name, title)

\* the map after the first two statements of result.Update: Delete under
\* opts.Name when the update has no name, Set of a copy of result under the
\* update's name when that differs from opts.Name
UpdatedMap(map, result, optsName, updates) ==
    LET deleted == IF updates.Name = "" THEN [map EXCEPT ![optsName] = Absent] ELSE map
    IN  IF updates.Name # optsName THEN [deleted EXCEPT ![updates.Name] = result]
        ELSE deleted
\* the variable result after the rest of result.Update
UpdatedResult(result, updates) ==
    [result EXCEPT !.Title = IF updates.Title # "" THEN updates.Title ELSE @,
                   !.Enabled = updates.Enabled]

(***************************************************************************)
(* result.Update of the item registered as name; op names the closure the  *)
(* application called.  A tool's Update calls SendToolListChanged once, a  *)
(* prompt's calls SendPromptListChanged twice.                             *)
(***************************************************************************)
Update(kind, op, name, updates) ==
    /\ mcpOps < MaxMcpOps
    /\ name \in NamesOf(kind)
    /\ ResultOf(kind)[name].present
    /\ IF kind = "tool"
       THEN /\ registeredTools' = UpdatedMap(registeredTools, toolResult[name], name, updates)
            /\ toolResult' = [toolResult EXCEPT ![name] = UpdatedResult(@, updates)]
            /\ UNCHANGED <<registeredPrompts, promptResult>>
       ELSE /\ registeredPrompts' = UpdatedMap(registeredPrompts, promptResult[name], name, updates)
            /\ promptResult' = [promptResult EXCEPT ![name] = UpdatedResult(@, updates)]
            /\ UNCHANGED <<registeredTools, toolResult>>
    /\ lastOp' = Called(op, kind, name, updates,
                        (IF kind = "tool" THEN 1 ELSE 2) * ListChangedSent(CapOf(kind)),
                        IF ListChangedFails(CapOf(kind)) THEN ReturnedError ELSE 0, {})
    /\ mcpOps' = mcpOps + 1
    /\ UNCHANGED <<serverTransport, serverCapabilities, handlersInitialized>>
    /\ UNCHANGED <<serverVars, protocolVars, stdioInVars, stdioOutVars, httpVars>>
\* result.Disable, result.Enable and result.Remove call result.Update
Disable(kind, name) == Update(kind, "Disable", name, [NoUpdates EXCEPT !.Enabled = FALSE])
Enable(kind, name) == Update(kind, "Enable", name, [NoUpdates EXCEPT !.Enabled = TRUE])
Remove(kind, name) == Update(kind, "Remove", name, [NoUpdates EXCEPT !.Name = ""])

\* the result of the tools/list and prompts/list handlers: the enabled
\* entries of the map, each named by its key
Listed(map) ==
    {[Name |-> k, Title |-> map[k].Title] : k \in {x \in DOMAIN map : map[x].present /\ map[x].Enabled}}
ListTools == Listed(registeredTools)
ListPrompts == Listed(registeredPrompts)

\* a tools/list request handled by the handler of setToolRequestHandlers
ListToolsRequest ==
    /\ mcpOps < MaxMcpOps
    /\ serverTransport = "attached"
    /\ "tools" \in handlersInitialized
    /\ lastOp' = Called("list", "tool", "", NoUpdates, 0, 0, ListTools)
    /\ mcpOps' = mcpOps + 1
    /\ UNCHANGED <<serverTransport, serverCapabilities, handlersInitialized,
                   registeredTools, registeredPrompts, toolResult, promptResult>>
    /\ UNCHANGED <<serverVars, protocolVars, stdioInVars, stdioOutVars, httpVars>>

\* a tools/call request for the tool called name
CallToolRequest(name) ==
    /\ mcpOps < MaxMcpOps
    /\ serverTransport = "attached"
    /\ "tools" \in handlersInitialized
    /\ name \in ToolKeys
    /\ lastOp' = Called("call", "tool", name, NoUpdates, 0,
                        IF ~registeredTools[name].present \/ ~registeredTools[name].Enabled
                        THEN ERROR_CODE_INVALID_PARAMS ELSE 0, {})
    /\ mcpOps' = mcpOps + 1
    /\ UNCHANGED <<serverTransport, serverCapabilities, handlersInitialized,
                   registeredTools, registeredPrompts, toolResult, promptResult>>
    /\ UNCHANGED <<serverVars, protocolVars, stdioInVars, stdioOutVars, httpVars>>

\* an application that registers tools and prompts, connects, and uses the
\* handles; a client that lists and calls tools
McpNext ==
    \/ McpConnect
    \/ \E name \in ToolNames : RegisterTool(name, "t1")
    \/ \E name \in PromptNames : RegisterPrompt(name, "t1")
    \/ \E kind \in {"tool", "prompt"}, name \in ToolNames \cup PromptNames :
          \/ Disable(kind, name)
          \/ Enable(kind, name)
          \/ Remove(kind, name)
    \/ \E name \in ToolNames, newName \in ToolKeys, title \in {"", "t2"}, enabled \in BOOLEAN :
          Update("tool", "Update", name, [Name |-> newName, Title |-> title, Enabled |-> enabled])
    \/ \E name \in PromptNames, newName \in PromptKeys, enabled \in BOOLEAN :
          Update("prompt", "Update", name, [Name |-> newName, Title |-> "", Enabled |-> enabled])
    \/ ListToolsRequest
    \/ \E name \in ToolKeys : CallToolRequest(name)
McpSpec == Init /\ [][McpNext]_vars

\* the calls that register an item or go through one of its closures
RegistryOps == {"Register", "Disable", "Enable", "Update", "Remove"}

\* C29: on a connected server that serves the list request of the kind,
\* every registration and every call of a closure of a tool or a prompt
\* sends exactly one list-changed notification when it changes what that
\* list request returns, and none when it does not.
C29_OneListChangedPerChange ==
    [][(/\ mcpOps' = mcpOps + 1
        /\ serverTransport = "attached"
        /\ lastOp'.op \in RegistryOps
        /\ CapOf(lastOp'.kind) \in handlersInitialized) =>
          LET changed == IF lastOp'.kind = "tool" THEN ListTools' # ListTools
                         ELSE ListPrompts' # ListPrompts
          IN  lastOp'.sent = IF changed THEN 1 ELSE 0]_vars

\* C30: a call of Disable, Enable or Update of a tool that is in the
\* registry under the name it was registered with leaves it there, Disable
\* and Enable changing only its Enabled flag and an Update under the same
\* name only the title it supplies; Remove deletes that entry; and no such
\* call touches an entry under another key.  tools/call fails with
\* INVALID_PARAMS exactly for the names tools/list omits.
C30_ToolLifecycle ==
    [][(/\ mcpOps' = mcpOps + 1
        /\ lastOp'.kind = "tool"
        /\ lastOp'.op \in RegistryOps \ {"Register"}
        /\ registeredTools[lastOp'.name].present) =>
          LET n == lastOp'.name
              old == registeredTools[n]
              u == lastOp'.updates
          IN  /\ lastOp'.op = "Disable" =>
                    registeredTools' = [registeredTools EXCEPT ![n].Enabled = FALSE]
              /\ lastOp'.op = "Enable" =>
                    registeredTools' = [registeredTools EXCEPT ![n].Enabled = TRUE]
              /\ lastOp'.op = "Remove" =>
                    registeredTools' = [registeredTools EXCEPT ![n] = Absent]
              /\ (lastOp'.op = "Update" /\ u.Name = n) =>
                    /\ registeredTools'[n].present
                    /\ registeredTools'[n].Title = IF u.Title # "" THEN u.Title ELSE old.Title
                    /\ \A k \in ToolKeys \ {n} : registeredTools'[k] = registeredTools[k]
              /\ lastOp'.op = "Update" =>
                    \E k \in ToolKeys : registeredTools'[k].present]_vars

(***************************************************************************)
(* Server: capabilities, request handlers and the answer to initialize.    *)
(***************************************************************************)
LATEST_PROTOCOL_VERSION == "2025-03-26"
SUPPORTED_PROTOCOL_VERSIONS == {LATEST_PROTOCOL_VERSION, "2024-11-05", "2024-10-07"}
\* the protocolVersion values a client asks for
RequestedVersions == SUPPORTED_PROTOCOL_VERSIONS \cup {"2025-06-18", "1.0", ""}
\* the fields of ServerCapabilities
Families == {"prompts", "resources", "tools", "logging", "sampling"}
\* the methods of the requests SetRequestHandler is called with
HandlerMethods ==
    {"initialize", "ping", "prompts/list", "prompts/get", "resources/list",
     "resources/templates/list", "resources/read", "tools/list", "tools/call",
     "logging/setLevel", "sampling/createMessage"}

ServerCalled(op, arg, result, capError, dupError) ==
    [op |-> op, arg |-> arg, result |-> result, capErr |-> capError, dupErr |-> dupError]

\* Server.RegisterCapabilities: refused once a transport is attached,
\* otherwise s.capabilities is assigned
RegisterCapabilities(caps) ==
    /\ caps \subseteq Families
    /\ serverTransport = "nil"
    /\ serverCapabilities' = caps
    /\ UNCHANGED <<serverTransport, handlersInitialized, registeredTools,
                   registeredPrompts, toolResult, promptResult, lastOp, mcpOps>>
    /\ UNCHANGED <<serverVars, protocolVars, stdioInVars, stdioOutVars, httpVars>>

\* Server.AssertRequestHandlerCapability: whether it returns an error.  A
\* case of the type switch without statements does nothing, so only the
\* last type of each group is tested.
AssertRequestHandlerCapability(method, caps) ==
    CASE method = "sampling/createMessage" -> "sampling" \notin caps
      [] method = "logging/setLevel" -> "logging" \notin caps
      [] method = "prompts/get" -> FALSE
      [] method = "prompts/list" -> "prompts" \notin caps
      [] method \in {"resources/list", "resources/templates/list"} -> FALSE
      [] method = "resources/read" -> "resources" \notin caps
      [] method = "tools/call" -> FALSE
      [] method = "tools/list" -> "tools" \notin caps
      [] OTHER -> FALSE

\* Protocol.SetRequestHandler: both errors go to onError and the handler is
\* set whatever they are
SetRequestHandler(method) ==
    /\ method \in HandlerMethods
    /\ Len(serverLog) < MaxServerCalls
    /\ serverLog' = Append(serverLog,
          ServerCalled("SetRequestHandler", method, "",
                       AssertRequestHandlerCapability(method, serverCapabilities),
                       method \in requestHandlers))
    /\ requestHandlers' = requestHandlers \cup {method}
    /\ UNCHANGED <<codec, wrapperPc>>
    /\ UNCHANGED <<mcpVars, protocolVars, stdioInVars, stdioOutVars, httpVars>>

\* onInitialize with the test for a supported version left out
onInitializeEcho(requestedVersion) ==
    /\ requestedVersion \in RequestedVersions
    /\ Len(serverLog) < MaxServerCalls
    /\ serverLog' = Append(serverLog,
          ServerCalled("onInitialize", requestedVersion, requestedVersion, FALSE, FALSE))
    /\ UNCHANGED <<requestHandlers, codec, wrapperPc>>
    /\ UNCHANGED <<mcpVars, protocolVars, stdioInVars, stdioOutVars, httpVars>>

\* Server.onInitialize: the protocolVersion of its result
onInitialize(requestedVersion) ==
    /\ requestedVersion \in RequestedVersions
    /\ Len(serverLog) < MaxServerCalls
    /\ serverLog' = Append(serverLog,
          ServerCalled("onInitialize", requestedVersion,
                       IF requestedVersion \in SUPPORTED_PROTOCOL_VERSIONS
                       THEN requestedVersion ELSE LATEST_PROTOCOL_VERSION,
                       FALSE, FALSE))
    /\ UNCHANGED <<requestHandlers, codec, wrapperPc>>
    /\ UNCHANGED <<mcpVars, protocolVars, stdioInVars, stdioOutVars, httpVars>>

\* a server that is configured, given handlers and asked to initialize
ServerNext ==
    \/ \E caps \in SUBSET Families : RegisterCapabilities(caps)
    \/ \E method \in HandlerMethods : SetRequestHandler(method)
    \/ \E v \in RequestedVersions : onInitialize(v)
ServerSpec == Init /\ [][ServerNext]_vars

\* C31: every answer to initialize carries the requested protocol version
\* when that is one of 2025-03-26, 2024-11-05 and 2024-10-07, and
\* 2025-03-26 for every other requested value.
C31_VersionNegotiated ==
    \A i \in DOMAIN serverLog :
        serverLog[i].op = "onInitialize" =>
            serverLog[i].result =
                IF serverLog[i].arg \in {"2025-03-26", "2024-11-05", "2024-10-07"}
                THEN serverLog[i].arg ELSE "2025-03-26"

\* C31 witness: an older supported version and an unsupported one have both
\* been asked for
C31_Witness ==
    /\ \E i \in DOMAIN serverLog : serverLog[i].op = "onInitialize"
                                      /\ serverLog[i].arg = "2024-11-05"
    /\ \E i \in DOMAIN serverLog : serverLog[i].op = "onInitialize"
                                      /\ serverLog[i].arg = "2025-06-18"

\* the capability the handler of a method needs ("": none)
FamilyOf(method) ==
    CASE method \in {"prompts/list", "prompts/get"} -> "prompts"
      [] method \in {"resources/list", "resources/templates/list", "resources/read"} -> "resources"
      [] method \in {"tools/list", "tools/call"} -> "tools"
      [] method = "logging/setLevel" -> "logging"
      [] OTHER -> ""

\* C34: SetRequestHandler for a prompts, resources, tools or logging method
\* reports a capability error exactly when the server has not advertised
\* that family, never reports one for ping and initialize, and installs the
\* handler in every case.
C34_HandlerCapabilityReported ==
    [][\A method \in HandlerMethods \ {"sampling/createMessage"} :
          (/\ Len(serverLog') = Len(serverLog) + 1
           /\ serverLog'[Len(serverLog')].op = "SetRequestHandler"
           /\ serverLog'[Len(serverLog')].arg = method) =>
              /\ method \in requestHandlers'
              /\ serverLog'[Len(serverLog')].capErr =
                    (FamilyOf(method) # "" /\ FamilyOf(method) \notin serverCapabilities)]_vars

(***************************************************************************)
(* types: the JSON codec of params objects.                                *)
(***************************************************************************)
\* the three params types with a hand-written codec
ParamsKinds == {"BaseRequestParams", "BaseNotificationParams", "RequestParams"}
\* the values of Metadata other than nil, as the JSON object each encodes to
MetaObjects == {"{}", "{\"progressToken\":\"exampleToken\"}"}
PropertyKeys == {"_meta", "exampleKey", "exampleKey2"}
PropertyValues == {"\"exampleValue\"", "\"notAllowed\""}
\* the maps a caller passes as AdditionalProperties
PropertyMaps == UNION {[keys -> PropertyValues] : keys \in SUBSET PropertyKeys}

\* a caller builds a params object
NewParams(kind, meta, props) ==
    /\ kind \in ParamsKinds
    /\ meta \in MetaObjects \cup {"nil"}
    /\ props \in PropertyMaps
    /\ codec.phase = "none"
    /\ codec' = [codec EXCEPT !.phase = "built", !.kind = kind,
                    !.params = [Metadata |-> meta, AdditionalProperties |-> props]]
    /\ UNCHANGED <<requestHandlers, serverLog, wrapperPc>>
    /\ UNCHANGED <<mcpVars, protocolVars, stdioInVars, stdioOutVars, httpVars>>

\* MarshalJSON that copies every additional property
MarshalJSONKeepingMeta(p) ==
    [key \in DOMAIN p.AdditionalProperties
             \cup (IF p.Metadata # "nil" THEN {"_meta"} ELSE {}) |->
        IF key \in DOMAIN p.AdditionalProperties THEN p.AdditionalProperties[key]
        ELSE p.Metadata]

\* MarshalJSON (the same statements in the three types): raw gets _meta
\* when Metadata is not nil, then every additional property but _meta
MarshalJSON(p) ==
    [key \in (DOMAIN p.AdditionalProperties \ {"_meta"})
             \cup (IF p.Metadata # "nil" THEN {"_meta"} ELSE {}) |->
        IF key = "_meta" THEN p.Metadata ELSE p.AdditionalProperties[key]]

\* raw without its _meta key
WithoutMeta(raw) == [key \in DOMAIN raw \ {"_meta"} |-> raw[key]]

\* UnmarshalJSON on a zero value: the error it returns and the object
\* afterwards.  The two Base types return at once when raw has no _meta;
\* RequestParams hands json.Unmarshal its nil Metadata pointer, which
\* json.Unmarshal refuses.
UnmarshalJSON(kind, raw) ==
    IF kind = "RequestParams"
    THEN [err |-> TRUE, params |-> ZeroParams]
    ELSE IF "_meta" \notin DOMAIN raw
         THEN [err |-> FALSE, params |-> ZeroParams]
         ELSE IF raw["_meta"] \notin MetaObjects
              THEN [err |-> TRUE, params |-> ZeroParams]
              ELSE [err |-> FALSE,
                    params |-> [Metadata |-> raw["_meta"],
                                AdditionalProperties |-> WithoutMeta(raw)]]

\* json.Marshal of the params object
Marshal ==
    /\ codec.phase = "built"
    /\ codec' = [codec EXCEPT !.phase = "encoded", !.wire = MarshalJSON(codec.params)]
    /\ UNCHANGED <<requestHandlers, serverLog, wrapperPc>>
    /\ UNCHANGED <<mcpVars, protocolVars, stdioInVars, stdioOutVars, httpVars>>

\* json.Unmarshal of the encoding
Unmarshal ==
    /\ codec.phase = "encoded"
    /\ codec' = [codec EXCEPT !.phase = "decoded",
                    !.err = UnmarshalJSON(codec.kind, codec.wire).err,
                    !.decoded = UnmarshalJSON(codec.kind, codec.wire).params]
    /\ UNCHANGED <<requestHandlers, serverLog, wrapperPc>>
    /\ UNCHANGED <<mcpVars, protocolVars, stdioInVars, stdioOutVars, httpVars>>

\* a params object is built, encoded and decoded again
CodecNext ==
    \/ \E kind \in ParamsKinds : \E meta \in MetaObjects \cup {"nil"} :
          \E props \in PropertyMaps : NewParams(kind, meta, props)
    \/ Marshal
    \/ Unmarshal
CodecSpec == Init /\ [][CodecNext]_vars

\* C32: decoding the encoding of a params object succeeds and yields the
\* _meta it had and the additional properties it had under keys other
\* than _meta.
C32_RoundTrip ==
    codec.phase = "decoded" =>
        /\ ~codec.err
        /\ codec.decoded.Metadata = codec.params.Metadata
        /\ codec.decoded.AdditionalProperties = WithoutMeta(codec.params.AdditionalProperties)

\* C33: the encoding has the additional properties beside _meta, its _meta
\* is the object's Metadata (and absent when that is nil, whatever the
\* additional properties say), and every other additional property is in
\* it with its value.
C33_MetaReserved ==
    codec.phase \in {"encoded", "decoded"} =>
        /\ ("_meta" \in DOMAIN codec.wire) = (codec.params.Metadata # "nil")
        /\ "_meta" \in DOMAIN codec.wire => codec.wire["_meta"] = codec.params.Metadata
        /\ DOMAIN codec.wire \ {"_meta"} = DOMAIN codec.params.AdditionalProperties \ {"_meta"}
        /\ \A key \in DOMAIN codec.wire \ {"_meta"} :
              codec.wire[key] = codec.params.AdditionalProperties[key]

\* C33 witness: an object with a progress token whose additional properties
\* hold _meta and exampleKey has been encoded
C33_Witness ==
    /\ codec.phase = "encoded"
    /\ codec.params.Metadata = "{\"progressToken\":\"exampleToken\"}"
    /\ {"_meta", "exampleKey"} \subseteq DOMAIN codec.params.AdditionalProperties
    /\ codec.params.AdditionalProperties["_meta"] = "\"notAllowed\""

(***************************************************************************)
(* The event streams of the HTTP transport, continued.                     *)
(***************************************************************************)
\* C35: a message written to an event stream is one frame there: with an
\* event store no two frames of one writer carry the same event id, and
\* every message Send reports written to a stream is a frame of it.
C35_OneFramePerMessage ==
    /\ ~eventStore.nil =>
          \A j, k \in DOMAIN frames :
              (j # k /\ frames[j].to = frames[k].to) => frames[j].id # frames[k].id
    /\ \A n \in DOMAIN sendLog :
          (sendLog[n].result = "written" /\ ~enableJSONResponse) =>
              \E j \in DOMAIN frames :
                  /\ frames[j].to = sendLog[n].to
                  /\ frames[j].msg = Message(sendLog[n].kind, sendLog[n].id)

\* the POSTs that carried requests to a transport in SSE mode
SsePosts ==
    {i \in DOMAIN httpLog : /\ httpLog[i].method = "POST"
                            /\ httpLog[i].kind = "request"
                            /\ ~enableJSONResponse}

\* C36: in SSE mode a POST of requests registers its stream and its request
\* ids; while one of its requests is unanswered the stream and the entries
\* of the unanswered ids are there, and once all are answered the stream
\* and all the entries of its ids are gone.
C36_StreamOpenUntilAnswered ==
    \A i \in SsePosts :
        LET ids == RequestIDsOf(i, httpLog[i].batch)
            done == {r \in ids : \E n \in DOMAIN sendLog :
                            /\ sendLog[n].after >= i
                            /\ sendLog[n].kind \in {"response", "error"}
                            /\ sendLog[n].id = r
                            /\ sendLog[n].result = "written"}
        IN  /\ streamMapping # "nil" /\ requestToStreamMapping # "nil"
                                     /\ requestResponseMap # "nil"
            /\ done # ids =>
                  /\ PostStreamID(i) \in streamMapping
                  /\ \A r \in ids \ done :
                        /\ r \in DOMAIN requestToStreamMapping
                        /\ requestToStreamMapping[r] = PostStreamID(i)
            /\ done = ids =>
                  /\ PostStreamID(i) \notin streamMapping
                  /\ ids \cap DOMAIN requestToStreamMapping = {}
                  /\ ids \cap requestResponseMap = {}

(***************************************************************************)
(* The engine after a close and after a failed Send.                       *)
(***************************************************************************)
\* C37: once the connection has been closed the progress-handler registry
\* and the timer registry are empty and no timer is armed, so that no timer
\* can fire and send notifications/cancelled afterwards.
C37_CloseClearsTimers ==
    (transport = "nil" /\ connects > 0 /\ ~crashed) =>
        /\ progressHandlers = EmptyMap
        /\ timeoutInfo = EmptyMap
        /\ \A s \in Slots : ~timer[s].running

\* C38: a Request call whose transport.Send failed returns that transport
\* error, and after it has returned no response handler, progress handler or
\* timer is registered under its message id.
C38_SendFailureCleansUp ==
    \A s \in Slots :
        (sendFailed[s] /\ pc[s] = "returned") =>
            /\ ret[s].e = ErrSend
            /\ messageID[s] \notin DOMAIN responseHandlers
            /\ messageID[s] \notin DOMAIN progressHandlers
            /\ messageID[s] \notin DOMAIN timeoutInfo

(***************************************************************************)
(* Protocol.Notification: refused without a transport and when the owner's *)
(* AssertNotificationCapability returns an error (assertOk false);         *)
(* otherwise the notification is sent, and a Send error is returned.       *)
(***************************************************************************)
ErrAssertNotification == Err(0, "assertNotificationCapability error")

Notification(assertOk, ok) ==
    /\ ~crashed
    /\ Len(notified) < MaxNotifications
    /\ ok \in SendResults
    /\ IF transport = "nil"
       THEN /\ notified' = Append(notified, ErrNotConnected)
            /\ UNCHANGED <<wire, sendFailures>>
       ELSE IF ~assertOk
       THEN /\ notified' = Append(notified, ErrAssertNotification)
            /\ UNCHANGED <<wire, sendFailures>>
       ELSE IF ok
       THEN /\ notified' = Append(notified, NilErr)
            /\ wire' = wire (+) SetToBag({Envelope("notification", 0, 0, 0)})
            /\ UNCHANGED sendFailures
       ELSE /\ notified' = Append(notified, ErrSend)
            /\ sendFailures' = sendFailures + 1
            /\ UNCHANGED wire
    /\ UNCHANGED <<engineVars, callerVars, inboundVars, peerVars, optionVars,
                   progressDue, cancelNotes, errors, crashed, ioVars>>

\* callers of Request with nil options and of Notification on a connection
\* that is attached, answers and is closed
ClosedNext ==
    \/ Connect
    \/ \E s \in Slots : RequestLoad(s, NoOptions)
    \/ \E s \in Slots, ok \in BOOLEAN : RequestSend(s, ok)
    \/ \E s \in Slots, v \in ReturnValues : RequestReturn(s, v)
    \/ \E e \in BagToSet(wire), kind \in {"result", "error"} : OnResponse(e, kind)
    \/ OnClose
    \/ \E assertOk \in BOOLEAN, ok \in BOOLEAN : Notification(assertOk, ok)
ClosedSpec == Init /\ [][ClosedNext]_vars

\* C39: while no transport is attached, a Request call that starts returns
\* "transport not connected" and a Notification call returns the same
\* error, and neither changes the message id counter, the registries of
\* handlers and timers, or what has been handed to a transport.
C39_NotConnectedHasNoEffect ==
    [][(transport = "nil" /\ ~crashed) =>
          /\ \A s \in Slots :
                (pc[s] = "idle" /\ pc'[s] # "idle") =>
                    /\ pc'[s] = "returned"
                    /\ ret'[s] = ReturnValue(0, ErrNotConnected)
                    /\ UNCHANGED <<requestMessageID, responseHandlers, progressHandlers,
                                   timeoutInfo, timer, wire>>
          /\ notified' # notified =>
                    /\ notified' = Append(notified, ErrNotConnected)
                    /\ UNCHANGED <<requestMessageID, responseHandlers, progressHandlers,
                                   timeoutInfo, timer, wire>>]_vars

\* C39 witness: a request and a notification were sent on the connection,
\* it was closed, and the next Request call and the next Notification call
\* have both returned "transport not connected"
C39_Witness ==
    /\ transport = "nil" /\ connects > 0 /\ ~crashed
    /\ EnvelopeSent(1)
    /\ pc[2] = "returned" /\ ret[2] = ReturnValue(0, ErrNotConnected)
    /\ Len(notified) = 2 /\ notified[1] = NilErr /\ notified[2] = ErrNotConnected

(***************************************************************************)
(* McpServer.Connect and Close, with the calls on the registries, every    *)
(* call that can take a step taking one.                                   *)
(***************************************************************************)
McpFairNext ==
    \/ McpNext
    \/ McpClose
McpFairSpec == Init /\ [][McpFairNext]_vars /\ WF_vars(McpFairNext)

\* C40: a call of McpServer.Connect or McpServer.Close that has run the
\* Protocol's Connect or Close returns.
C40_ConnectAndCloseReturn ==
    \A call \in WrapperCalls :
        (wrapperPc[call] = "waiting") ~> (wrapperPc[call] = "returned")

====
